---- MODULE Spec2Model ----
(***************************************************************************)
(* Verification model of the Monkey bytecode back end:                     *)
(*   - the symbol table        (compiler/symbol_table.go, src/unnamed)     *)
(*   - the compiler            (compiler/compiler.go)                      *)
(*   - the virtual machine     (vm/vm.go, vm/frame.go)                     *)
(*   - the instruction encoder (code package, known through its tests)     *)
(* Four specifications share the variables: SpecSym drives the symbol      *)
(* table, SpecEnc the encoder, Spec compiles an AST and runs the result,   *)
(* SpecVM runs instruction buffers handed directly to the machine.         *)
(***************************************************************************)
EXTENDS Integers, Sequences, FiniteSets, TLC

VARIABLES
    tables,     \* chain of SymbolTable values; tables[i].Outer is tables[i-1]
    ret,        \* what the last symbol table call returned
    defines,    \* history: per table, the symbols returned by Define, in order
    calls,      \* number of symbol table calls made so far
    promoted,   \* history: per table, the names Resolve returned as Free
    enc,        \* encoder scenario: opcode, operands, Make's buffer, decoding
    prog,       \* the ast.Program handed to Compile
    lines,      \* number of Compile calls made so far
    comp,       \* the Compiler (its fields), with the history of its run
    compErr,    \* what Compile returned
    bytecode,   \* the compiler.Bytecode handed to vm.New
    vm,         \* the VM (its fields)
    pc,         \* position of the driver: compile, new, run, returned, panic
    runErr      \* what Run returned

vars == <<tables, ret, defines, calls, promoted, enc, prog, lines, comp, compErr, bytecode, vm, pc, runErr>>

symVars == <<tables, ret, defines, calls, promoted>>
encVars == <<enc>>
runVars == <<prog, lines, comp, compErr, bytecode, vm, pc, runErr>>

-----------------------------------------------------------------------------
(* Bounds of the model *)

MaxDepth == 4        \* tables in a chain: Global <- T1 <- T2 <- T3
MaxDefs == 2         \* Define calls per table
MaxCalls == 4        \* symbol table calls after the chain is built
MaxInt == 2          \* integer literals of the programs: 0..MaxInt
MaxInstr == 3        \* instructions of a hand-written main program
MaxLines == 2        \* Compile calls of a session of incremental compilation

Names == {"a", "b"}
BuiltinIndexes == {0, 1}

(* The parts of the state a specification does not drive *)

NoRet ==
    [op |-> "none", table |-> 0, name |-> "",
     symbol |-> [Name |-> "", Scope |-> "", Index |-> 0], ok |-> FALSE]

SymIdle ==
    /\ tables = <<>> /\ ret = NoRet /\ defines = <<>> /\ calls = 0
    /\ promoted = <<>>

EncIdle == enc = [phase |-> "idle"]
RunIdle ==
    /\ prog = <<>> /\ lines = 0 /\ comp = <<>> /\ compErr = <<>> /\ bytecode = <<>>
    /\ vm = <<>> /\ pc = "idle" /\ runErr = <<>>

-----------------------------------------------------------------------------
(* Symbol table *)

GlobalScope == "GLOBAL"
LocalScope == "LOCAL"
BuiltinScope == "BUILTIN"
FreeScope == "FREE"
FunctionScope == "FUNCTION"

Symbol(name, scope, index) == [Name |-> name, Scope |-> scope, Index |-> index]

\* the zero value Symbol{} that Resolve returns with ok = false
ZeroSymbol == Symbol("", "", 0)

EmptyStore == [n \in {} |-> ZeroSymbol]

\* s.store[name] = symbol
StorePut(store, name, symbol) ==
    [n \in DOMAIN store \cup {name} |-> IF n = name THEN symbol ELSE store[n]]

\* NewSymbolTable: empty store, no free symbols, numDefinitions 0.  Outer is
\* the position in the chain: the table at position 1 has Outer == nil.
NewSymbolTable == [store |-> EmptyStore, numDefinitions |-> 0, FreeSymbols |-> <<>>]

\* NewEnclosedSymbolTable(outer): the chain `outer` extended by a new table
NewEnclosedSymbolTable(outer) == Append(outer, NewSymbolTable)

HasOuter(t) == t > 1

\* a variant that forgets s.numDefinitions++
DefineNoIncrement(tabs, t, name) ==
    LET s == tabs[t]
        symbol == Symbol(name,
                         IF ~HasOuter(t) THEN GlobalScope ELSE LocalScope,
                         s.numDefinitions)
    IN [tabs |-> [tabs EXCEPT ![t].store = StorePut(@, name, symbol)],
        symbol |-> symbol]

\* Define on table t of the chain tabs
Define(tabs, t, name) ==
    LET s == tabs[t]
        symbol == Symbol(name,
                         IF ~HasOuter(t) THEN GlobalScope ELSE LocalScope,
                         s.numDefinitions)
    IN [tabs |-> [tabs EXCEPT ![t].store = StorePut(@, name, symbol),
                              ![t].numDefinitions = @ + 1],
        symbol |-> symbol]

DefineBuiltin(tabs, t, index, name) ==
    LET symbol == Symbol(name, BuiltinScope, index)
    IN [tabs |-> [tabs EXCEPT ![t].store = StorePut(@, name, symbol)],
        symbol |-> symbol]

DefineFunctionName(tabs, t, name) ==
    LET symbol == Symbol(name, FunctionScope, 0)
    IN [tabs |-> [tabs EXCEPT ![t].store = StorePut(@, name, symbol)],
        symbol |-> symbol]

\* a variant that appends the symbol after rewriting it to Free
PromoteRewritten(tabs, t, obj) ==
    LET nobj == [obj EXCEPT !.Scope = FreeScope,
                            !.Index = Len(tabs[t].FreeSymbols)]
    IN [tabs |-> [tabs EXCEPT ![t].FreeSymbols = Append(@, nobj),
                              ![t].store = StorePut(@, nobj.Name, nobj)],
        obj |-> nobj, ok |-> TRUE]

\* a variant that takes the index before the append has grown the list
PromoteOffByOne(tabs, t, obj) ==
    LET free == Append(tabs[t].FreeSymbols, obj)
        nobj == [obj EXCEPT !.Scope = FreeScope, !.Index = Len(free)]
    IN [tabs |-> [tabs EXCEPT ![t].FreeSymbols = free,
                              ![t].store = StorePut(@, nobj.Name, nobj)],
        obj |-> nobj, ok |-> TRUE]

\* a variant that does not keep the Free symbol in the store
PromoteNotCached(tabs, t, obj) ==
    LET free == Append(tabs[t].FreeSymbols, obj)
        nobj == [obj EXCEPT !.Scope = FreeScope, !.Index = Len(free) - 1]
    IN [tabs |-> [tabs EXCEPT ![t].FreeSymbols = free],
        obj |-> nobj, ok |-> TRUE]

\* the promotion in Resolve: append obj as the outer returned it, then store
\* and return the rewritten Free symbol
Promote(tabs, t, obj) ==
    LET free == Append(tabs[t].FreeSymbols, obj)
        nobj == [obj EXCEPT !.Scope = FreeScope, !.Index = Len(free) - 1]
    IN [tabs |-> [tabs EXCEPT ![t].FreeSymbols = free,
                              ![t].store = StorePut(@, nobj.Name, nobj)],
        obj |-> nobj, ok |-> TRUE]

\* a variant that lets only Global symbols through unchanged
RECURSIVE ResolvePromotesBuiltin(_, _, _)
ResolvePromotesBuiltin(tabs, t, name) ==
    LET s == tabs[t]
        ok == name \in DOMAIN s.store
    IN IF ~ok /\ HasOuter(t)
       THEN LET r == ResolvePromotesBuiltin(tabs, t - 1, name)
            IN IF ~r.ok THEN r
               ELSE IF r.obj.Scope = GlobalScope THEN r
               ELSE Promote(r.tabs, t, r.obj)
       ELSE [tabs |-> tabs,
             obj |-> IF ok THEN s.store[name] ELSE ZeroSymbol,
             ok |-> ok]

RECURSIVE Resolve(_, _, _)
Resolve(tabs, t, name) ==
    LET s == tabs[t]
        ok == name \in DOMAIN s.store
    IN IF ~ok /\ HasOuter(t)
       THEN LET r == Resolve(tabs, t - 1, name)
            IN IF ~r.ok THEN r
               ELSE IF r.obj.Scope = GlobalScope \/ r.obj.Scope = BuiltinScope THEN r
               ELSE Promote(r.tabs, t, r.obj)
       ELSE [tabs |-> tabs,
             obj |-> IF ok THEN s.store[name] ELSE ZeroSymbol,
             ok |-> ok]

-----------------------------------------------------------------------------
(* Instruction encoding: package code.  Its source is not part of the      *)
(* snapshot (only code_test.go is); opcodes, operand widths, Make and       *)
(* ReadOperands follow the specification's section 4.1 and the tests.       *)

OpConstant == 0
OpAdd == 1
OpPop == 2
OpSub == 3
OpMul == 4
OpDiv == 5
OpTrue == 6
OpFalse == 7
OpEqual == 8
OpNotEqual == 9
OpGreaterThan == 10
OpMinus == 11
OpBang == 12
OpJumpNotTruthy == 13
OpJump == 14
OpNull == 15
OpGetGlobal == 16
OpSetGlobal == 17
OpArray == 18
OpHash == 19
OpIndex == 20
OpCall == 21
OpReturnValue == 22
OpReturn == 23
OpGetLocal == 24
OpSetLocal == 25
OpGetBuiltin == 26
OpClosure == 27
OpGetFree == 28
OpCurrentClosure == 29

Opcodes == OpConstant..OpCurrentClosure

\* definitions[op].OperandWidths
OperandWidths(op) ==
    CASE op \in {OpConstant, OpJumpNotTruthy, OpJump, OpGetGlobal, OpSetGlobal,
                 OpArray, OpHash} -> <<2>>
      [] op \in {OpCall, OpGetLocal, OpSetLocal, OpGetBuiltin, OpGetFree} -> <<1>>
      [] op = OpClosure -> <<2, 1>>
      [] OTHER -> <<>>

\* Lookup: the definition of a defined opcode, an error otherwise
Lookup(op) ==
    IF op \in Opcodes
    THEN [ok |-> TRUE, OperandWidths |-> OperandWidths(op)]
    ELSE [ok |-> FALSE, OperandWidths |-> <<>>]

RECURSIVE SumWidths(_)
SumWidths(widths) ==
    IF widths = <<>> THEN 0 ELSE Head(widths) + SumWidths(Tail(widths))

\* a variant that stores the low byte first
PutOperandLittleEndian(o, width) ==
    IF width = 2 THEN <<o % 256, (o \div 256) % 256>>
    ELSE IF width = 1 THEN <<o % 256>>
    ELSE <<>>

\* binary.BigEndian.PutUint16(buf, uint16(o)) for width 2, byte(o) for width 1
PutOperand(o, width) ==
    IF width = 2 THEN <<(o \div 256) % 256, o % 256>>
    ELSE IF width = 1 THEN <<o % 256>>
    ELSE <<>>

RECURSIVE PutOperands(_, _)
PutOperands(operands, widths) ==
    IF operands = <<>> THEN <<>>
    ELSE PutOperand(Head(operands), Head(widths))
            \o PutOperands(Tail(operands), Tail(widths))

\* Make(op, operands...): the opcode byte, then every operand in its width;
\* the empty buffer for an unknown opcode or a wrong number of operands
Make(op, operands) ==
    LET def == Lookup(op)
    IN IF ~def.ok \/ Len(operands) # Len(def.OperandWidths) THEN <<>>
       ELSE <<op>> \o PutOperands(operands, def.OperandWidths)

\* ReadUint16(ins): the first two bytes of ins, big-endian
ReadUint16(ins) == ins[1] * 256 + ins[2]

\* ReadUint8(ins)
ReadUint8(ins) == ins[1]

\* a variant that reads one byte where the width is two
ReadOperandNarrow(ins, width) == ReadUint8(ins)

ReadOperand(ins, width) ==
    IF width = 2 THEN ReadUint16(ins) ELSE ReadUint8(ins)

RECURSIVE ReadOperandsFrom(_, _)
ReadOperandsFrom(widths, ins) ==
    IF widths = <<>> THEN <<>>
    ELSE <<ReadOperand(ins, Head(widths))>>
            \o ReadOperandsFrom(Tail(widths), SubSeq(ins, Head(widths) + 1, Len(ins)))

\* ReadOperands(def, ins): the decoded operands and the bytes consumed
ReadOperands(def, ins) ==
    [operands |-> ReadOperandsFrom(def.OperandWidths, ins),
     n |-> SumWidths(def.OperandWidths)]

\* operand values the scenarios draw from: both ends of each width, the
\* values of the tests, the jump placeholder and one value too wide for u16
OperandSamples == {0, 1, 255, 256, 9999, 65534, 65535, 65536}

OperandTuples ==
    {<<>>} \cup {<<a>> : a \in OperandSamples}
           \cup {<<a, b>> : a \in OperandSamples, b \in OperandSamples}

InitEnc ==
    /\ \E op \in Opcodes \cup {255}, operands \in OperandTuples :
          enc = [phase |-> "input", op |-> op, operands |-> operands]
    /\ SymIdle
    /\ RunIdle

\* instruction := Make(tt.op, tt.operands...)
EncMake ==
    /\ enc.phase = "input"
    /\ enc' = [phase |-> "made", op |-> enc.op, operands |-> enc.operands,
               instruction |-> Make(enc.op, enc.operands)]
    /\ UNCHANGED <<symVars, runVars>>

\* def, err := Lookup(byte(tt.op)); operandsRead, n := ReadOperands(def, instruction[1:])
EncRead ==
    /\ enc.phase = "made"
    /\ Lookup(enc.op).ok
    /\ enc.instruction # <<>>
    /\ LET r == ReadOperands(Lookup(enc.op), Tail(enc.instruction))
       IN enc' = [phase |-> "read", op |-> enc.op, operands |-> enc.operands,
                  instruction |-> enc.instruction,
                  operandsRead |-> r.operands, n |-> r.n]
    /\ UNCHANGED <<symVars, runVars>>

NextEnc == EncMake \/ EncRead

SpecEnc == InitEnc /\ [][NextEnc]_vars

-----------------------------------------------------------------------------
(* Driving the symbol table.  `promoted` is the history of each table's     *)
(* Resolve calls: promoted[t][name] is the Free symbol that the latest      *)
(* Resolve(name) on table t returned, `redefined` telling whether           *)
(* DefineBuiltin or DefineFunctionName has been called for the name on that *)
(* table since; Define(name) on the table forgets the entry.                *)

NoneResolved == [n \in {} |-> [symbol |-> ZeroSymbol, redefined |-> FALSE]]

\* the history after a call that (re)defines name on table t
Redefined(t, name) ==
    [promoted EXCEPT ![t] =
        [n \in DOMAIN @ |-> IF n = name THEN [@[n] EXCEPT !.redefined = TRUE] ELSE @[n]]]

\* the history after Define(name) on table t
Forgotten(t, name) ==
    [promoted EXCEPT ![t] = [n \in DOMAIN @ \ {name} |-> @[n]]]

\* Resolve(name) on table t calls Resolve on every table from t outwards
\* until one holds the name; the history keeps what each of these calls
\* returned when it returned a Free symbol
Resolved(t, name) ==
    [u \in 1..Len(promoted) |->
        IF /\ u <= t
           /\ \A w \in (u + 1)..t : name \notin DOMAIN tables[w].store
           /\ Resolve(tables, u, name).ok
           /\ Resolve(tables, u, name).obj.Scope = FreeScope
        THEN [n \in DOMAIN promoted[u] \cup {name} |->
                 IF n = name
                 THEN [symbol |-> Resolve(tables, u, name).obj, redefined |-> FALSE]
                 ELSE promoted[u][n]]
        ELSE promoted[u]]

InitSym ==
    /\ tables = <<NewSymbolTable>>
    /\ ret = NoRet
    /\ defines = << <<>> >>
    /\ calls = 0
    /\ promoted = <<NoneResolved>>
    /\ EncIdle
    /\ RunIdle

CallNewEnclosed ==
    /\ Len(tables) < MaxDepth
    /\ tables' = NewEnclosedSymbolTable(tables)
    /\ defines' = Append(defines, <<>>)
    /\ promoted' = Append(promoted, NoneResolved)
    /\ ret' = [NoRet EXCEPT !.op = "NewEnclosedSymbolTable", !.table = Len(tables) + 1]
    /\ UNCHANGED <<calls, encVars, runVars>>

CallDefine ==
    \E t \in 1..Len(tables), name \in Names :
        /\ calls < MaxCalls
        /\ tables[t].numDefinitions < MaxDefs
        /\ LET r == Define(tables, t, name)
           IN /\ tables' = r.tabs
              /\ ret' = [op |-> "Define", table |-> t, name |-> name,
                         symbol |-> r.symbol, ok |-> TRUE]
              /\ defines' = [defines EXCEPT ![t] = Append(@, r.symbol)]
        /\ promoted' = Forgotten(t, name)
        /\ calls' = calls + 1
        /\ UNCHANGED <<encVars, runVars>>

CallDefineBuiltin ==
    \E t \in 1..Len(tables), name \in Names, index \in BuiltinIndexes :
        /\ calls < MaxCalls
        /\ LET r == DefineBuiltin(tables, t, index, name)
           IN /\ tables' = r.tabs
              /\ ret' = [op |-> "DefineBuiltin", table |-> t, name |-> name,
                         symbol |-> r.symbol, ok |-> TRUE]
        /\ promoted' = Redefined(t, name)
        /\ calls' = calls + 1
        /\ UNCHANGED <<defines, encVars, runVars>>

CallDefineFunctionName ==
    \E t \in 1..Len(tables), name \in Names :
        /\ calls < MaxCalls
        /\ LET r == DefineFunctionName(tables, t, name)
           IN /\ tables' = r.tabs
              /\ ret' = [op |-> "DefineFunctionName", table |-> t, name |-> name,
                         symbol |-> r.symbol, ok |-> TRUE]
        /\ promoted' = Redefined(t, name)
        /\ calls' = calls + 1
        /\ UNCHANGED <<defines, encVars, runVars>>

CallResolve ==
    \E t \in 1..Len(tables), name \in Names :
        /\ calls < MaxCalls
        /\ LET r == Resolve(tables, t, name)
           IN /\ tables' = r.tabs
              /\ ret' = [op |-> "Resolve", table |-> t, name |-> name,
                         symbol |-> r.obj, ok |-> r.ok]
              /\ promoted' = Resolved(t, name)
        /\ calls' = calls + 1
        /\ UNCHANGED <<defines, encVars, runVars>>


NextSym ==
    \/ CallNewEnclosed
    \/ CallDefine
    \/ CallDefineBuiltin
    \/ CallDefineFunctionName
    \/ CallResolve

SpecSym == InitSym /\ [][NextSym]_vars

-----------------------------------------------------------------------------
(* Objects: package object (not part of the snapshot; the fields are those *)
(* the compiler and the VM use).  Strings, arrays, hashes and compiled      *)
(* functions are heap objects: `id` is the identity of the allocation, the  *)
(* thing Go's == on two object.Object values compares.                      *)

INTEGER_OBJ == "INTEGER"
BOOLEAN_OBJ == "BOOLEAN"
NULL_OBJ == "NULL"
STRING_OBJ == "STRING"
ARRAY_OBJ == "ARRAY"
HASH_OBJ == "HASH"
COMPILED_FUNCTION_OBJ == "COMPILED_FUNCTION_OBJ"

Integer(v) == [type |-> INTEGER_OBJ, Value |-> v]
String(v, id) == [type |-> STRING_OBJ, Value |-> v, id |-> id]
Array(elements, id) == [type |-> ARRAY_OBJ, Elements |-> elements, id |-> id]
Hash(pairs, id) == [type |-> HASH_OBJ, Pairs |-> pairs, id |-> id]
CompiledFunction(ins, numLocals, numParameters, id) ==
    [type |-> COMPILED_FUNCTION_OBJ, Instructions |-> ins, NumLocals |-> numLocals,
     NumParameters |-> numParameters, id |-> id]

\* the nil object.Object: an unset stack or globals slot
Nil == [type |-> "nil"]

-----------------------------------------------------------------------------
(* AST: package ast (not part of the snapshot).  A node is a record tagged  *)
(* by `kind` with the child accessors Compile uses; NoNode is a nil child.  *)

NoNode == [kind |-> "nil"]

IntegerLiteral(v) == [kind |-> "IntegerLiteral", Value |-> v]
BooleanLit(b) == [kind |-> "Boolean", BoolValue |-> b]
StringLiteral(s) == [kind |-> "StringLiteral", StrValue |-> s]
Identifier(name) == [kind |-> "Identifier", Name |-> name]
PrefixExpression(op, right) ==
    [kind |-> "PrefixExpression", Operator |-> op, Right |-> right]
InfixExpression(op, left, right) ==
    [kind |-> "InfixExpression", Operator |-> op, Left |-> left, Right |-> right]
IfExpression(cond, cons, alt) ==
    [kind |-> "IfExpression", Condition |-> cond, Consequence |-> cons,
     Alternative |-> alt]
ArrayLiteral(elements) == [kind |-> "ArrayLiteral", Elements |-> elements]
IndexExpression(left, index) ==
    [kind |-> "IndexExpression", Left |-> left, Index |-> index]
BlockStatement(stmts) == [kind |-> "BlockStatement", Statements |-> stmts]
ExpressionStatement(e) == [kind |-> "ExpressionStatement", Expression |-> e]
LetStatement(name, value) ==
    [kind |-> "LetStatement", LetName |-> name, LetValue |-> value]
Program(stmts) == [kind |-> "Program", Statements |-> stmts]

-----------------------------------------------------------------------------
(* Compiler *)

\* errors are tuples: the message kind, then its arguments; nil is <<>>
NoError == <<>>

EmittedInstruction(op, pos) == [Opcode |-> op, Position |-> pos]

\* history of one Compiler, kept beside its fields: the number of emit calls,
\* every failed Resolve of an Identifier with the number of emit calls made
\* before it, the positions every completed IfExpression worked with, the
\* constant list the compiler was constructed with, every literal compiled
\* (the object, the index addConstant returned, the offset of its OpConstant),
\* every Identifier loaded (the symbol Resolve returned, the offset of the
\* load), every LetStatement completed (the symbol Define returned, the
\* offset of the store), every consultation of lastInstructionIsPop (the
\* lastInstruction and the buffer it found), every removeLastPop (the buffer
\* and the position it cut at) and every changeOperand (the buffer length
\* before and after)
NoHistory ==
    [emits |-> 0, undefined |-> <<>>, ifs |-> <<>>, preserved |-> <<>>,
     literals |-> <<>>, loads |-> <<>>, lets |-> <<>>,
     consults |-> <<>>, removals |-> <<>>, patches |-> <<>>]

\* New(): empty buffers, zero-valued last/previous instruction, fresh table
New ==
    [instructions |-> <<>>,
     constants |-> <<>>,
     lastInstruction |-> EmittedInstruction(0, 0),
     previousInstruction |-> EmittedInstruction(0, 0),
     symbolTable |-> <<NewSymbolTable>>,
     hist |-> NoHistory]

\* NewWithState(s, constants)
NewWithState(s, constants) ==
    [New EXCEPT !.symbolTable = s, !.constants = constants,
                !.hist.preserved = constants]

\* byte at offset pos (offsets count from 0 as in Go)
ByteAt(ins, pos) == ins[pos + 1]

\* a variant that returns the length of the list after the append
addConstantOneTooFar(c, obj) ==
    LET constants == Append(c.constants, obj)
    IN [c |-> [c EXCEPT !.constants = constants], index |-> Len(constants)]

\* the object is appended; its index is returned
addConstant(c, obj) ==
    LET constants == Append(c.constants, obj)
    IN [c |-> [c EXCEPT !.constants = constants], index |-> Len(constants) - 1]

setLastInstruction(c, op, pos) ==
    [c EXCEPT !.previousInstruction = c.lastInstruction,
              !.lastInstruction = EmittedInstruction(op, pos)]

addInstrucion(c, ins) ==
    [c |-> [c EXCEPT !.instructions = @ \o ins],
     pos |-> Len(c.instructions)]

emit(c, op, operands) ==
    LET a == addInstrucion(c, Make(op, operands))
    IN [c |-> [setLastInstruction(a.c, op, a.pos) EXCEPT !.hist.emits = @ + 1],
        pos |-> a.pos]

lastInstructionIsPop(c) == c.lastInstruction.Opcode = OpPop

\* the compiler as it is when Compile calls lastInstructionIsPop
consulted(c) ==
    [c EXCEPT !.hist.consults =
        Append(@, [last |-> c.lastInstruction, instructions |-> c.instructions])]

removeLastPop(c) ==
    [c EXCEPT !.instructions = SubSeq(@, 1, c.lastInstruction.Position),
              !.lastInstruction = c.previousInstruction,
              !.hist.removals =
                  Append(@, [instructions |-> c.instructions,
                             Position |-> c.lastInstruction.Position])]

replaceInstruction(c, pos, newInstruction) ==
    [c EXCEPT !.instructions =
        [i \in 1..Len(@) |->
            IF i - 1 >= pos /\ i - 1 < pos + Len(newInstruction)
            THEN newInstruction[i - pos] ELSE @[i]]]

\* a variant that writes the new instruction one byte too far
changeOperandShifted(c, opPos, operand) ==
    replaceInstruction(c, opPos + 1, Make(ByteAt(c.instructions, opPos), <<operand>>))

\* a variant that patches every jump with the offset of the first instruction
changeOperandToStart(c, opPos, operand) ==
    replaceInstruction(c, opPos, Make(ByteAt(c.instructions, opPos), <<0>>))

changeOperand(c, opPos, operand) ==
    LET r == replaceInstruction(c, opPos, Make(ByteAt(c.instructions, opPos), <<operand>>))
    IN [r EXCEPT !.hist.patches =
            Append(@, [before |-> Len(c.instructions), after |-> Len(r.instructions)])]

Ok(c) == [c |-> c, err |-> NoError]
Failed(c, err) == [c |-> c, err |-> err]

\* the opcode of an infix operator other than "<"; 255 when there is none
InfixOpcode(operator) ==
    CASE operator = "+" -> OpAdd
      [] operator = "-" -> OpSub
      [] operator = "*" -> OpMul
      [] operator = "/" -> OpDiv
      [] operator = ">" -> OpGreaterThan
      [] operator = "==" -> OpEqual
      [] operator = "!=" -> OpNotEqual
      [] OTHER -> 255

\* case *ast.Identifier
CompileIdentifier(node, c) ==
    LET r == Resolve(c.symbolTable, Len(c.symbolTable), node.Name)
        c1 == [c EXCEPT !.symbolTable = r.tabs]
    IN IF ~r.ok
       THEN Failed([c1 EXCEPT !.hist.undefined =
                        Append(@, [name |-> node.Name, emits |-> c.hist.emits])],
                   <<"undefined variable", node.Name>>)
       ELSE LET e == emit(c1, OpGetGlobal, <<r.obj.Index>>)
            IN Ok([e.c EXCEPT !.hist.loads =
                       Append(@, [symbol |-> r.obj, pos |-> e.pos])])

RECURSIVE Compile(_, _)
RECURSIVE CompileEach(_, _)

\* the loops over node.Statements and node.Elements: compile in order and
\* stop at the first error
CompileEach(nodes, c) ==
    IF nodes = <<>> THEN Ok(c)
    ELSE LET r == Compile(Head(nodes), c)
         IN IF r.err # NoError THEN r ELSE CompileEach(Tail(nodes), r.c)

\* case *ast.IfExpression
CompileIf(node, c) ==
    LET r1 == Compile(node.Condition, c)
    IN IF r1.err # NoError THEN r1
       ELSE
       LET e1 == emit(r1.c, OpJumpNotTruthy, <<9999>>)
           jumpNotTrutyPos == e1.pos
           r2 == Compile(node.Consequence, e1.c)
       IN IF r2.err # NoError THEN r2
          ELSE
          LET c2 == consulted(r2.c)
              c3 == IF lastInstructionIsPop(c2) THEN removeLastPop(c2) ELSE c2
              e2 == emit(c3, OpJump, <<9999>>)
              jumpNoMatterWhat == e2.pos
              afterConsequencsPos == Len(e2.c.instructions)
              c4 == changeOperand(e2.c, jumpNotTrutyPos, afterConsequencsPos)
              r5 == IF node.Alternative.kind = "nil"
                    THEN Ok(emit(c4, OpNull, <<>>).c)
                    ELSE LET ra == Compile(node.Alternative, c4)
                         IN IF ra.err # NoError THEN ra
                            ELSE Ok(IF lastInstructionIsPop(consulted(ra.c))
                                    THEN removeLastPop(consulted(ra.c))
                                    ELSE consulted(ra.c))
          IN IF r5.err # NoError THEN r5
             ELSE
             LET afterAlternativePos == Len(r5.c.instructions)
                 c6 == changeOperand(r5.c, jumpNoMatterWhat, afterAlternativePos)
             IN Ok([c6 EXCEPT !.hist.ifs =
                        Append(@, [jumpNotTrutyPos |-> jumpNotTrutyPos,
                                   jumpNoMatterWhat |-> jumpNoMatterWhat,
                                   afterConsequencsPos |-> afterConsequencsPos,
                                   afterAlternativePos |-> afterAlternativePos])])

\* a variant that compiles "<" in source order
CompileInfixNoSwap(node, c) ==
    LET r1 == Compile(node.Left, c)
    IN IF r1.err # NoError THEN r1
       ELSE LET r2 == Compile(node.Right, r1.c)
            IN IF r2.err # NoError THEN r2
               ELSE IF node.Operator = "<" THEN Ok(emit(r2.c, OpGreaterThan, <<>>).c)
               ELSE IF InfixOpcode(node.Operator) = 255
               THEN Failed(r2.c, <<"unknown operator", node.Operator>>)
               ELSE Ok(emit(r2.c, InfixOpcode(node.Operator), <<>>).c)

\* case *ast.InfixExpression
CompileInfix(node, c) ==
    IF node.Operator = "<"
    THEN LET r1 == Compile(node.Right, c)
         IN IF r1.err # NoError THEN r1
            ELSE LET r2 == Compile(node.Left, r1.c)
                 IN IF r2.err # NoError THEN r2
                    ELSE Ok(emit(r2.c, OpGreaterThan, <<>>).c)
    ELSE LET r1 == Compile(node.Left, c)
         IN IF r1.err # NoError THEN r1
            ELSE LET r2 == Compile(node.Right, r1.c)
                 IN IF r2.err # NoError THEN r2
                    ELSE IF InfixOpcode(node.Operator) = 255
                         THEN Failed(r2.c, <<"unknown operator", node.Operator>>)
                         ELSE Ok(emit(r2.c, InfixOpcode(node.Operator), <<>>).c)

\* case *ast.PrefixExpression
CompilePrefix(node, c) ==
    LET r == Compile(node.Right, c)
    IN IF r.err # NoError THEN r
       ELSE IF node.Operator = "-" THEN Ok(emit(r.c, OpMinus, <<>>).c)
       ELSE IF node.Operator = "!" THEN Ok(emit(r.c, OpBang, <<>>).c)
       ELSE Failed(r.c, <<"unknown operator", node.Operator>>)

\* case *ast.LetStatement
CompileLet(node, c) ==
    LET r == Compile(node.LetValue, c)
    IN IF r.err # NoError THEN r
       ELSE LET d == Define(r.c.symbolTable, Len(r.c.symbolTable), node.LetName.Name)
                c1 == [r.c EXCEPT !.symbolTable = d.tabs]
                e == emit(c1, OpSetGlobal, <<d.symbol.Index>>)
            IN Ok([e.c EXCEPT !.hist.lets =
                       Append(@, [symbol |-> d.symbol, pos |-> e.pos])])

\* case *ast.IntegerLiteral and case *ast.StringLiteral
CompileLiteral(obj, c) ==
    LET a == addConstant(c, obj)
        e == emit(a.c, OpConstant, <<a.index>>)
    IN Ok([e.c EXCEPT !.hist.literals =
               Append(@, [obj |-> obj, index |-> a.index, pos |-> e.pos])])

\* Compile(node): the compiler afterwards and the error returned
Compile(node, c) ==
    CASE node.kind = "ArrayLiteral" ->
            LET r == CompileEach(node.Elements, c)
            IN IF r.err # NoError THEN Ok(r.c)
               ELSE Ok(emit(r.c, OpArray, <<Len(node.Elements)>>).c)
      [] node.kind = "BlockStatement" ->
            Ok(CompileEach(node.Statements, c).c)
      [] node.kind = "Program" ->
            CompileEach(node.Statements, c)
      [] node.kind = "ExpressionStatement" ->
            LET r == Compile(node.Expression, c)
            IN IF r.err # NoError THEN r ELSE Ok(emit(r.c, OpPop, <<>>).c)
      [] node.kind = "PrefixExpression" -> CompilePrefix(node, c)
      [] node.kind = "Identifier" -> CompileIdentifier(node, c)
      [] node.kind = "InfixExpression" -> CompileInfix(node, c)
      [] node.kind = "IntegerLiteral" ->
            CompileLiteral(Integer(node.Value), c)
      [] node.kind = "Boolean" ->
            Ok(emit(c, IF node.BoolValue THEN OpTrue ELSE OpFalse, <<>>).c)
      [] node.kind = "IfExpression" -> CompileIf(node, c)
      [] node.kind = "LetStatement" -> CompileLet(node, c)
      [] node.kind = "StringLiteral" ->
            CompileLiteral(String(node.StrValue, Len(c.constants)), c)
      [] OTHER -> Ok(c)

\* Bytecode()
Bytecode(c) == [Instructions |-> c.instructions, Constans |-> c.constants]

-----------------------------------------------------------------------------
(* Virtual machine *)

GlobalsSize == 65536
MaxFrames == 1024
StackSize == 2048

True == [type |-> BOOLEAN_OBJ, Value |-> TRUE]
False == [type |-> BOOLEAN_OBJ, Value |-> FALSE]
Null == [type |-> NULL_OBJ]

\* a run-time panic of the Go program (index out of range, nil dereference,
\* integer division by zero): Run does not return
Panic(reason) == <<"panic", reason>>
IsPanic(err) == err # NoError /\ err[1] = "panic"

\* arrays of the VM (stack, globals, frames) are kept as functions on the
\* slots written so far; every other slot of the Go array holds nil
SlotPut(arr, i, o) == [k \in DOMAIN arr \cup {i} |-> IF k = i THEN o ELSE arr[k]]
SlotGet(arr, i) == IF i \in DOMAIN arr THEN arr[i] ELSE Nil
NoSlots == [k \in {} |-> Nil]

\* NewFrame(fn, basePointer)
NewFrame(fn, basePointer) == [fn |-> fn, ip |-> -1, basePointer |-> basePointer]

\* Frame.Instructions()
Instructions(f) == f.fn.Instructions

\* vm.New(bytecode); allocs counts the objects the VM has allocated
NewVM(bc) ==
    [constants |-> bc.Constans,
     globals |-> NoSlots,
     stack |-> NoSlots,
     sp |-> 0,
     frames |-> SlotPut(NoSlots, 0, NewFrame(CompiledFunction(bc.Instructions, 0, 0, -1), 0)),
     framesIndex |-> 1,
     allocs |-> 0]

\* identity of the next object the VM allocates (constants have ids >= 0)
FreshId(v) == 0 - (v.allocs + 2)

Res(v, err) == [vm |-> v, err |-> err]

currentFrame(v) == v.frames[v.framesIndex - 1]

\* vm.currentFrame().ip += n
AdvanceIp(v, n) == [v EXCEPT !.frames[v.framesIndex - 1].ip = @ + n]
SetIp(v, ip) == [v EXCEPT !.frames[v.framesIndex - 1].ip = ip]

push(v, o) ==
    IF v.sp >= StackSize THEN Res(v, <<"stack overflow">>)
    ELSE IF v.sp < 0 THEN Res(v, Panic("index out of range"))
    ELSE Res([v EXCEPT !.stack = SlotPut(@, v.sp, o), !.sp = @ + 1], NoError)

\* pop: the object is returned in field o
pop(v) ==
    IF v.sp - 1 < 0 \/ v.sp - 1 >= StackSize
    THEN [vm |-> v, o |-> Nil, err |-> Panic("index out of range")]
    ELSE [vm |-> [v EXCEPT !.sp = @ - 1], o |-> SlotGet(v.stack, v.sp - 1), err |-> NoError]

pushFrame(v, f) ==
    IF v.framesIndex >= MaxFrames THEN Res(v, Panic("index out of range"))
    ELSE Res([v EXCEPT !.frames = SlotPut(@, v.framesIndex, f),
                       !.framesIndex = @ + 1], NoError)

\* popFrame: the frame is returned in field frame
popFrame(v) ==
    [vm |-> [v EXCEPT !.framesIndex = @ - 1], frame |-> v.frames[v.framesIndex - 1]]

\* LastPoppedStackElm: stack[sp]; the read panics when sp == StackSize
LastPoppedStackElm(v) == SlotGet(v.stack, v.sp)

isTruty(obj) ==
    CASE obj.type = BOOLEAN_OBJ -> obj.Value
      [] obj.type = NULL_OBJ -> FALSE
      [] OTHER -> TRUE

nativeBoolToBooleanObject(input) == IF input THEN True ELSE False

\* Go's == on two object.Object values: the same object
SameObject(a, b) ==
    /\ a.type = b.type
    /\ CASE a.type = BOOLEAN_OBJ -> a.Value = b.Value
         [] a.type \in {NULL_OBJ, "nil"} -> TRUE
         [] a.type = INTEGER_OBJ -> FALSE
         [] OTHER -> a.id = b.id

\* Go's integer division truncates toward zero
Quotient(a, b) ==
    LET abs(x) == IF x < 0 THEN 0 - x ELSE x
        q == abs(a) \div abs(b)
    IN IF (a < 0) = (b < 0) THEN q ELSE 0 - q

\* buildArray(startIndex, endIndex): field o is the array
RECURSIVE stackSlice(_, _, _)
stackSlice(v, startIndex, endIndex) ==
    IF startIndex >= endIndex THEN <<>>
    ELSE <<SlotGet(v.stack, startIndex)>> \o stackSlice(v, startIndex + 1, endIndex)

buildArray(v, startIndex, endIndex) ==
    IF startIndex < endIndex /\ (startIndex < 0 \/ endIndex > StackSize)
    THEN [vm |-> v, o |-> Nil, err |-> Panic("index out of range")]
    ELSE [vm |-> [v EXCEPT !.allocs = @ + 1],
          o |-> Array(stackSlice(v, startIndex, endIndex), FreshId(v)),
          err |-> NoError]

Hashable(o) == o.type \in {INTEGER_OBJ, BOOLEAN_OBJ, STRING_OBJ}
HashKey(o) == <<o.type, o.Value>>

\* the loop of buildHash: pairs read so far and the first error
RECURSIVE hashPairs(_, _, _, _)
hashPairs(v, i, endIndex, pairs) ==
    IF i >= endIndex THEN [pairs |-> pairs, err |-> NoError]
    ELSE IF i < 0 \/ i + 1 >= StackSize
         THEN [pairs |-> pairs, err |-> Panic("index out of range")]
    ELSE LET key == SlotGet(v.stack, i)
             value == SlotGet(v.stack, i + 1)
         IN IF key.type = "nil"
            THEN [pairs |-> pairs, err |-> Panic("nil dereference")]
            ELSE IF ~Hashable(key)
            THEN [pairs |-> pairs, err |-> <<"unusable as hash key", key.type>>]
            ELSE hashPairs(v, i + 2, endIndex,
                           SlotPut(pairs, HashKey(key), [Key |-> key, Value |-> value]))

buildHash(v, startIndex, endIndex) ==
    LET r == hashPairs(v, startIndex, endIndex, NoSlots)
    IN IF r.err # NoError THEN [vm |-> v, o |-> Nil, err |-> r.err]
       ELSE [vm |-> [v EXCEPT !.allocs = @ + 1], o |-> Hash(r.pairs, FreshId(v)),
             err |-> NoError]

\* a variant whose frame starts at the callee, not at the first argument
callFunctionBaseAtCallee(v, numArgs) ==
    IF v.sp - 1 - numArgs < 0 \/ v.sp - 1 - numArgs >= StackSize
    THEN Res(v, Panic("index out of range"))
    ELSE
    LET fn == SlotGet(v.stack, v.sp - 1 - numArgs)
    IN IF fn.type # COMPILED_FUNCTION_OBJ THEN Res(v, <<"calling non-function">>)
       ELSE IF fn.NumParameters # numArgs
       THEN Res(v, <<"wrong number of arguments", fn.NumParameters, numArgs>>)
       ELSE LET frame == NewFrame(fn, v.sp - numArgs - 1)
                p == pushFrame(v, frame)
            IN IF p.err # NoError THEN p
               ELSE Res([p.vm EXCEPT !.sp = frame.basePointer + fn.NumLocals], NoError)

\* a variant that pushes the frame before it has checked the arguments
callFunctionUnchecked(v, numArgs) ==
    LET fn == SlotGet(v.stack, v.sp - 1 - numArgs)
        frame == NewFrame(fn, v.sp - numArgs)
        p == pushFrame(v, frame)
    IN IF fn.type # COMPILED_FUNCTION_OBJ THEN Res(v, <<"calling non-function">>)
       ELSE IF fn.NumParameters # numArgs
       THEN Res(p.vm, <<"wrong number of arguments", fn.NumParameters, numArgs>>)
       ELSE Res([p.vm EXCEPT !.sp = frame.basePointer + fn.NumLocals], NoError)

callFunction(v, numArgs) ==
    IF v.sp - 1 - numArgs < 0 \/ v.sp - 1 - numArgs >= StackSize
    THEN Res(v, Panic("index out of range"))
    ELSE
    LET fn == SlotGet(v.stack, v.sp - 1 - numArgs)
    IN IF fn.type # COMPILED_FUNCTION_OBJ THEN Res(v, <<"calling non-function">>)
       ELSE IF fn.NumParameters # numArgs
       THEN Res(v, <<"wrong number of arguments", fn.NumParameters, numArgs>>)
       ELSE LET frame == NewFrame(fn, v.sp - numArgs)
                p == pushFrame(v, frame)
            IN IF p.err # NoError THEN p
               ELSE Res([p.vm EXCEPT !.sp = frame.basePointer + fn.NumLocals], NoError)

\* a variant that reports an index outside the array as an error
executeArrayIndexStrict(v, left, index) ==
    IF index.Value < 0 \/ Len(left.Elements) <= index.Value
    THEN Res(v, <<"index out of range", index.Value>>)
    ELSE push(v, left.Elements[index.Value + 1])

executeArrayIndex(v, left, index) ==
    IF index.Value < 0 \/ Len(left.Elements) <= index.Value
    THEN push(v, Null)
    ELSE push(v, left.Elements[index.Value + 1])

executeHashIndex(v, hash, index) ==
    IF index.type = "nil" THEN Res(v, Panic("nil dereference"))
    ELSE IF ~Hashable(index) THEN Res(v, <<"unusable as hash key", index.type>>)
    ELSE IF HashKey(index) \notin DOMAIN hash.Pairs THEN push(v, Null)
    ELSE push(v, hash.Pairs[HashKey(index)].Value)

executeIndexExpression(v, left, index) ==
    IF left.type = "nil" THEN Res(v, Panic("nil dereference"))
    ELSE IF left.type = ARRAY_OBJ /\ index.type = "nil" THEN Res(v, Panic("nil dereference"))
    ELSE IF left.type = ARRAY_OBJ /\ index.type = INTEGER_OBJ
    THEN executeArrayIndex(v, left, index)
    ELSE IF left.type = HASH_OBJ THEN executeHashIndex(v, left, index)
    ELSE Res(v, <<"index operator not supported", left.type>>)

\* a variant for which Null is not falsy
executeBangOperatorNullTruthy(v) ==
    LET p == pop(v)
    IN IF p.err # NoError THEN Res(p.vm, p.err)
       ELSE IF SameObject(p.o, True) THEN push(p.vm, False)
       ELSE IF SameObject(p.o, False) THEN push(p.vm, True)
       ELSE push(p.vm, False)

executeBangOperator(v) ==
    LET p == pop(v)
    IN IF p.err # NoError THEN Res(p.vm, p.err)
       ELSE IF SameObject(p.o, True) THEN push(p.vm, False)
       ELSE IF SameObject(p.o, False) THEN push(p.vm, True)
       ELSE IF SameObject(p.o, Null) THEN push(p.vm, True)
       ELSE push(p.vm, False)

executeMinusOperator(v) ==
    LET p == pop(v)
    IN IF p.err # NoError THEN Res(p.vm, p.err)
       ELSE IF p.o.type = "nil" THEN Res(p.vm, Panic("nil dereference"))
       ELSE IF p.o.type # INTEGER_OBJ
       THEN Res(p.vm, <<"unsupported types for minus operation", p.o.type>>)
       ELSE LET r == push(p.vm, Integer(0 - p.o.Value))
            IN IF IsPanic(r.err) THEN r ELSE Res(r.vm, NoError)

executeBinaryIntegerOperation(v, op, left, right) ==
    CASE op = OpAdd -> push(v, Integer(left.Value + right.Value))
      [] op = OpMul -> push(v, Integer(left.Value * right.Value))
      [] op = OpDiv -> IF right.Value = 0 THEN Res(v, Panic("integer divide by zero"))
                       ELSE push(v, Integer(Quotient(left.Value, right.Value)))
      [] op = OpSub -> push(v, Integer(left.Value - right.Value))
      [] OTHER -> Res(v, <<"unknown integer operator", op>>)

executeBinaryStringOperation(v, op, left, right) ==
    IF op = OpAdd
    THEN push([v EXCEPT !.allocs = @ + 1], String(left.Value \o right.Value, FreshId(v)))
    ELSE Res(v, <<"unknown string operator", op>>)

executeBinaryOperation(v, op) ==
    LET pr == pop(v)
    IN IF pr.err # NoError THEN Res(pr.vm, pr.err)
       ELSE
       LET pl == pop(pr.vm)
           right == pr.o
           left == pl.o
       IN IF pl.err # NoError THEN Res(pl.vm, pl.err)
          ELSE IF left.type = "nil" \/ right.type = "nil"
          THEN Res(pl.vm, Panic("nil dereference"))
          ELSE IF left.type = INTEGER_OBJ /\ right.type = INTEGER_OBJ
          THEN executeBinaryIntegerOperation(pl.vm, op, left, right)
          ELSE IF left.type = STRING_OBJ /\ right.type = STRING_OBJ
          THEN executeBinaryStringOperation(pl.vm, op, left, right)
          ELSE Res(pl.vm, <<"unsupported types for binary operation", left.type, right.type>>)

executeIntegerComparision(v, op, left, right) ==
    CASE op = OpEqual -> push(v, nativeBoolToBooleanObject(left.Value = right.Value))
      [] op = OpNotEqual -> push(v, nativeBoolToBooleanObject(left.Value # right.Value))
      [] op = OpGreaterThan -> push(v, nativeBoolToBooleanObject(left.Value > right.Value))
      [] OTHER -> Res(v, <<"unknown integer comparision operator", op>>)

executeComparision(v, op) ==
    LET pr == pop(v)
    IN IF pr.err # NoError THEN Res(pr.vm, pr.err)
       ELSE
       LET pl == pop(pr.vm)
           right == pr.o
           left == pl.o
       IN IF pl.err # NoError THEN Res(pl.vm, pl.err)
          ELSE IF left.type = "nil" THEN Res(pl.vm, Panic("nil dereference"))
          ELSE IF left.type = INTEGER_OBJ /\ right.type = "nil"
          THEN Res(pl.vm, Panic("nil dereference"))
          ELSE IF left.type = INTEGER_OBJ /\ right.type = INTEGER_OBJ
          THEN executeIntegerComparision(pl.vm, op, left, right)
          ELSE IF op = OpEqual
          THEN push(pl.vm, nativeBoolToBooleanObject(SameObject(left, right)))
          ELSE IF op = OpNotEqual
          THEN push(pl.vm, nativeBoolToBooleanObject(~SameObject(left, right)))
          ELSE Res(pl.vm, <<"unknown bool comparision operator", op>>)

\* one iteration of the loop of Run: the instruction at ip + 1 of the
\* current frame.  err is NoError when the loop goes on.
Exec(v) ==
    LET v0 == AdvanceIp(v, 1)
        ip == currentFrame(v0).ip
        ins == Instructions(currentFrame(v0))
        op == ByteAt(ins, ip)
        \* fewer than n operand bytes follow the opcode
        short(n) == ip + n >= Len(ins)
        u16 == ReadUint16(SubSeq(ins, ip + 2, Len(ins)))
        u8 == ReadUint8(SubSeq(ins, ip + 2, Len(ins)))
        bp == currentFrame(v0).basePointer
    IN
    CASE op = OpArray ->
            IF short(2) THEN Res(v0, Panic("index out of range"))
            ELSE LET v1 == AdvanceIp(v0, 2)
                     b == buildArray(v1, v1.sp - u16, v1.sp)
                     r == push(b.vm, b.o)
                 IN IF b.err # NoError THEN Res(b.vm, b.err)
                    ELSE IF IsPanic(r.err) THEN r
                    ELSE Res(r.vm, NoError)
      [] op = OpCall ->
            IF short(1) THEN Res(v0, Panic("index out of range"))
            ELSE callFunction(AdvanceIp(v0, 1), u8)
      [] op = OpConstant ->
            IF short(2) THEN Res(v0, Panic("index out of range"))
            ELSE IF u16 >= Len(v0.constants)
            THEN Res(AdvanceIp(v0, 2), Panic("index out of range"))
            ELSE push(AdvanceIp(v0, 2), v0.constants[u16 + 1])
      [] op = OpPop ->
            LET p == pop(v0) IN Res(p.vm, p.err)
      [] op \in {OpAdd, OpDiv, OpMul, OpSub} -> executeBinaryOperation(v0, op)
      [] op = OpNull -> push(v0, Null)
      [] op = OpTrue -> push(v0, True)
      [] op = OpFalse -> push(v0, False)
      [] op \in {OpEqual, OpGreaterThan, OpNotEqual} -> executeComparision(v0, op)
      [] op = OpMinus -> executeMinusOperator(v0)
      [] op = OpBang -> executeBangOperator(v0)
      [] op = OpJump ->
            IF short(2) THEN Res(v0, Panic("index out of range"))
            ELSE Res(SetIp(v0, u16 - 1), NoError)
      [] op = OpJumpNotTruthy ->
            IF short(2) THEN Res(v0, Panic("index out of range"))
            ELSE LET p == pop(AdvanceIp(v0, 2))
                 IN IF p.err # NoError THEN Res(p.vm, p.err)
                    ELSE IF ~isTruty(p.o) THEN Res(SetIp(p.vm, u16 - 1), NoError)
                    ELSE Res(p.vm, NoError)
      [] op = OpGetGlobal ->
            IF short(2) THEN Res(v0, Panic("index out of range"))
            ELSE IF u16 >= GlobalsSize
            THEN Res(AdvanceIp(v0, 2), Panic("index out of range"))
            ELSE push(AdvanceIp(v0, 2), SlotGet(v0.globals, u16))
      [] op = OpGetLocal ->
            IF short(1) THEN Res(v0, Panic("index out of range"))
            ELSE IF bp + u8 < 0 \/ bp + u8 >= StackSize
            THEN Res(AdvanceIp(v0, 1), Panic("index out of range"))
            ELSE push(AdvanceIp(v0, 1), SlotGet(v0.stack, bp + u8))
      [] op = OpReturn ->
            LET f == popFrame(v0)
            IN push([f.vm EXCEPT !.sp = f.frame.basePointer - 1], Null)
      [] op = OpReturnValue ->
            LET p == pop(v0)
                f == popFrame(p.vm)
            IN IF p.err # NoError THEN Res(p.vm, p.err)
               ELSE push([f.vm EXCEPT !.sp = f.frame.basePointer - 1], p.o)
      [] op = OpSetGlobal ->
            IF short(2) THEN Res(v0, Panic("index out of range"))
            ELSE LET p == pop(AdvanceIp(v0, 2))
                 IN IF p.err # NoError THEN Res(p.vm, p.err)
                    ELSE IF u16 >= GlobalsSize
                    THEN Res(p.vm, Panic("index out of range"))
                    ELSE Res([p.vm EXCEPT !.globals = SlotPut(@, u16, p.o)], NoError)
      [] op = OpSetLocal ->
            IF short(1) THEN Res(v0, Panic("index out of range"))
            ELSE LET p == pop(AdvanceIp(v0, 1))
                 IN IF p.err # NoError THEN Res(p.vm, p.err)
                    ELSE IF bp + u8 < 0 \/ bp + u8 >= StackSize
                    THEN Res(p.vm, Panic("index out of range"))
                    ELSE Res([p.vm EXCEPT !.stack = SlotPut(@, bp + u8, p.o)], NoError)
      [] op = OpHash ->
            IF short(2) THEN Res(v0, Panic("index out of range"))
            ELSE LET v1 == AdvanceIp(v0, 2)
                     h == buildHash(v1, v1.sp - u16, v1.sp)
                 IN IF h.err # NoError THEN Res(h.vm, h.err)
                    ELSE push([h.vm EXCEPT !.sp = @ - u16], h.o)
      [] op = OpIndex ->
            LET pi == pop(v0)
                pl == pop(pi.vm)
            IN IF pi.err # NoError THEN Res(pi.vm, pi.err)
               ELSE IF pl.err # NoError THEN Res(pl.vm, pl.err)
               ELSE executeIndexExpression(pl.vm, pl.o, pi.o)
      [] OTHER -> Res(v0, NoError)

\* the condition of the loop of Run
LoopCondition(v) == currentFrame(v).ip < Len(Instructions(currentFrame(v))) - 1

-----------------------------------------------------------------------------
(* Driving the compiler and the VM *)

\* c.Compile(program)
DoCompile ==
    /\ pc = "compile"
    /\ LET r == Compile(prog, comp)
       IN /\ comp' = r.c
          /\ compErr' = r.err
          /\ pc' = IF r.err = NoError THEN "new" ELSE "rejected"
    /\ lines' = lines + 1
    /\ UNCHANGED <<prog, bytecode, vm, runErr, symVars, encVars>>

\* vm.New(c.Bytecode())
DoNew ==
    /\ pc = "new"
    /\ bytecode' = Bytecode(comp)
    /\ vm' = NewVM(bytecode')
    /\ pc' = "run"
    /\ UNCHANGED <<prog, lines, comp, compErr, runErr, symVars, encVars>>

\* vm.New(bytecode) for a bytecode that was not compiled here
DoNewVM ==
    /\ pc = "new"
    /\ vm' = NewVM(bytecode)
    /\ pc' = "run"
    /\ UNCHANGED <<prog, lines, comp, compErr, bytecode, runErr, symVars, encVars>>

\* one iteration of the loop of Run; an error ends Run
RunStep ==
    /\ pc = "run"
    /\ LoopCondition(vm)
    /\ LET r == Exec(vm)
       IN /\ vm' = r.vm
          /\ runErr' = r.err
          /\ pc' = IF r.err = NoError THEN "run"
                   ELSE IF IsPanic(r.err) THEN "panic" ELSE "returned"
    /\ UNCHANGED <<prog, lines, comp, compErr, bytecode, symVars, encVars>>

\* the loop of Run ends: return nil
RunReturn ==
    /\ pc = "run"
    /\ ~LoopCondition(vm)
    /\ pc' = "returned"
    /\ UNCHANGED <<prog, lines, comp, compErr, bytecode, vm, runErr, symVars, encVars>>

-----------------------------------------------------------------------------
(* The programs handed to Compile *)

IntLiterals == {IntegerLiteral(n) : n \in 0..MaxInt}

Atoms ==
    IntLiterals
    \cup {BooleanLit(TRUE), BooleanLit(FALSE), StringLiteral(""), StringLiteral("x"),
          Identifier("a"), Identifier("foobar")}

Stmt(e) == ExpressionStatement(e)
Block1(e) == BlockStatement(<<Stmt(e)>>)

\* "~" and "%" stand for operators the compiler does not know
PrefixExpressions ==
    {PrefixExpression(op, x) :
        op \in {"-", "!", "~"},
        x \in IntLiterals \cup {BooleanLit(TRUE), BooleanLit(FALSE), StringLiteral(""),
                                ArrayLiteral(<<>>), Identifier("foobar"),
                                IfExpression(BooleanLit(FALSE), Block1(IntegerLiteral(1)),
                                             NoNode)}}

InfixExpressions ==
    {InfixExpression(op, x, y) :
        op \in {"+", "-", "*", "/", "<", ">", "==", "!=", "%"},
        x \in IntLiterals \cup {BooleanLit(TRUE), StringLiteral("x")},
        y \in IntLiterals \cup {BooleanLit(TRUE), StringLiteral("x")}}

ArrayLiterals ==
    {ArrayLiteral(<<>>)}
    \cup {ArrayLiteral(<<x>>) : x \in Atoms}
    \cup {ArrayLiteral(<<x, y>>) :
            x \in {IntegerLiteral(1), Identifier("foobar")},
            y \in {IntegerLiteral(1), BooleanLit(TRUE), Identifier("foobar")}}

Blocks ==
    {BlockStatement(<<>>)}
    \cup {Block1(x) : x \in {IntegerLiteral(1), StringLiteral("x"), Identifier("foobar"),
                            ArrayLiteral(<<Identifier("foobar")>>)}}
    \cup {BlockStatement(<<LetStatement(Identifier("a"), IntegerLiteral(1))>>)}
    \cup {BlockStatement(<<Stmt(IntegerLiteral(1)), Stmt(x)>>) :
            x \in {IntegerLiteral(0), Identifier("foobar"),
                   ArrayLiteral(<<Identifier("foobar")>>)}}

Conditions ==
    {BooleanLit(TRUE), BooleanLit(FALSE), IntegerLiteral(0), Identifier("foobar"),
     InfixExpression("<", IntegerLiteral(1), IntegerLiteral(MaxInt))}

IfExpressions ==
    {IfExpression(c, b, alt) : c \in Conditions, b \in Blocks, alt \in Blocks \cup {NoNode}}

InnerIfs ==
    {IfExpression(c, Block1(IntegerLiteral(1)), alt) :
        c \in {BooleanLit(TRUE), BooleanLit(FALSE)},
        alt \in {NoNode, BlockStatement(<<>>), Block1(IntegerLiteral(0))}}

\* an IfExpression as the condition, in the consequence and in the alternative
NestedIfs ==
    {IfExpression(i, b, alt) :
        i \in InnerIfs, b \in {Block1(StringLiteral("x"))},
        alt \in {NoNode, Block1(StringLiteral(""))}}
    \cup {IfExpression(c, Block1(i), alt) :
        c \in {BooleanLit(TRUE), BooleanLit(FALSE)}, i \in InnerIfs,
        alt \in {NoNode, Block1(StringLiteral(""))}}
    \cup {IfExpression(c, b, Block1(i)) :
        c \in {BooleanLit(TRUE), BooleanLit(FALSE)},
        b \in {Block1(StringLiteral("x")), BlockStatement(<<>>)}, i \in InnerIfs}

\* a block whose only statement fails after it has compiled e, the error
\* being the block's to handle
FailsAfter(e) ==
    BlockStatement(<<Stmt(InfixExpression("+", e, Identifier("foobar")))>>)

\* a block that ends in two OpPop: the second statement emits nothing else
TwoPops ==
    BlockStatement(<<Stmt(IntegerLiteral(1)), Stmt(ArrayLiteral(<<Identifier("foobar")>>))>>)

\* if-expressions nested through the alternative, each inside a statement
\* that fails
RECURSIVE FailingChain(_)
FailingChain(depth) ==
    IfExpression(BooleanLit(TRUE), Block1(IntegerLiteral(1)),
                 IF depth = 1 THEN TwoPops ELSE FailsAfter(FailingChain(depth - 1)))

FailingChains == {FailingChain(depth) : depth \in 1..3}

Expressions ==
    FailingChains \cup Atoms \cup PrefixExpressions \cup InfixExpressions \cup ArrayLiterals
          \cup IfExpressions \cup NestedIfs
          \cup {IndexExpression(ArrayLiteral(<<IntegerLiteral(1)>>), IntegerLiteral(0))}

FirstStatements ==
    {LetStatement(Identifier("a"), x) :
        x \in {IntegerLiteral(1), BooleanLit(FALSE), Identifier("a"),
               ArrayLiteral(<<IntegerLiteral(1)>>)}}
    \cup {Stmt(IntegerLiteral(1)), Stmt(ArrayLiteral(<<Identifier("foobar")>>))}

SecondStatements ==
    {Stmt(x) : x \in Atoms}
    \cup {Stmt(InfixExpression(op, Identifier("a"), IntegerLiteral(1))) : op \in {"+", "<", "=="}}
    \cup {Stmt(PrefixExpression(op, Identifier("a"))) : op \in {"-", "!"}}
    \cup {Stmt(ArrayLiteral(<<Identifier("a")>>))}
    \cup {Stmt(IfExpression(Identifier("a"), Block1(Identifier("a")), alt)) :
            alt \in {NoNode, Block1(IntegerLiteral(0))}}
    \cup {LetStatement(Identifier("b"), x) : x \in {Identifier("a"), IntegerLiteral(MaxInt)}}

Programs ==
    {Program(<<>>)}
    \cup {Program(<<Stmt(e)>>) : e \in Expressions}
    \cup {Program(<<s1, s2>>) : s1 \in FirstStatements, s2 \in SecondStatements}

Init ==
    /\ prog \in Programs
    /\ lines = 0
    /\ comp = New
    /\ compErr = NoError
    /\ bytecode = <<>>
    /\ vm = <<>>
    /\ pc = "compile"
    /\ runErr = NoError
    /\ SymIdle
    /\ EncIdle

Next == DoCompile \/ DoNew \/ RunStep \/ RunReturn

Spec == Init /\ [][Next]_vars

\* Run is sequential code: while its loop can take another iteration it
\* takes it, and when the loop has ended Run returns
SpecLive == Init /\ [][Next]_vars /\ WF_vars(RunStep) /\ WF_vars(RunReturn)

-----------------------------------------------------------------------------
(* The bytecode handed to the VM directly *)

\* the constant pool of the hand-written programs; the function at index 4
\* reserves every stack slot above its own as a local and runs `body`
Pool(body) ==
    <<Integer(1),
      String("a", 1),
      CompiledFunction(Make(OpGetLocal, <<0>>) \o Make(OpReturnValue, <<>>), 1, 1, 2),
      CompiledFunction(Make(OpReturn, <<>>), 0, 0, 3),
      CompiledFunction(body, StackSize - 1, 0, 4),
      Integer(0),
      Integer(2)>>

Alphabet ==
    {Make(OpConstant, <<i>>) : i \in 0..3}
    \cup {Make(OpCall, <<n>>) : n \in 0..2}
    \cup {Make(OpArray, <<n>>) : n \in {0, 2}}
    \cup {Make(op, <<>>) : op \in {OpTrue, OpNull, OpPop, OpMinus, OpBang, OpAdd, OpIndex}}

\* what may run with the stack full: every opcode that pushes
FullStackAlphabet ==
    Alphabet
    \cup {Make(OpConstant, <<4>>), Make(OpGetGlobal, <<0>>), Make(OpGetLocal, <<0>>),
          Make(OpHash, <<0>>), Make(OpFalse, <<>>), Make(OpReturnValue, <<>>),
          Make(OpReturn, <<>>)}

\* what is loaded as the index of an index expression: 0, 1, 2, -1, a string
\* and a boolean
IndexLoads ==
    {Make(OpConstant, <<5>>), Make(OpConstant, <<0>>), Make(OpConstant, <<6>>),
     Make(OpConstant, <<0>>) \o Make(OpMinus, <<>>), Make(OpConstant, <<1>>),
     Make(OpTrue, <<>>)}

\* [1, "a"][index] and [][index], alone or as an expression statement
IndexPrograms ==
    {Make(OpConstant, <<0>>) \o Make(OpConstant, <<1>>) \o Make(OpArray, <<2>>)
        \o index \o Make(OpIndex, <<>>) \o rest :
        index \in IndexLoads, rest \in {<<>>, Make(OpPop, <<>>)}}
    \cup {Make(OpArray, <<0>>) \o index \o Make(OpIndex, <<>>) : index \in IndexLoads}

RECURSIVE InstructionSeqs(_, _)
InstructionSeqs(alphabet, n) ==
    IF n = 0 THEN {<<>>}
    ELSE LET shorter == InstructionSeqs(alphabet, n - 1)
         IN shorter \cup {s \o i : s \in shorter, i \in alphabet}

Bytecodes ==
    {[Instructions |-> ins, Constans |-> Pool(Make(OpTrue, <<>>))] :
        ins \in InstructionSeqs(Alphabet, MaxInstr) \cup IndexPrograms}
    \cup {[Instructions |-> Make(OpConstant, <<4>>) \o Make(OpCall, <<0>>),
           Constans |-> Pool(body)] : body \in InstructionSeqs(FullStackAlphabet, 2)}
    \cup {[Instructions |-> Make(OpConstant, <<2>>) \o Make(OpConstant, <<0>>)
                              \o Make(OpConstant, <<0>>) \o Make(OpCall, <<2>>)
                              \o Make(OpPop, <<>>),
           Constans |-> Pool(<<>>)]}

InitVM ==
    /\ bytecode \in Bytecodes
    /\ prog = <<>>
    /\ lines = 0
    /\ comp = <<>>
    /\ compErr = NoError
    /\ vm = <<>>
    /\ pc = "new"
    /\ runErr = NoError
    /\ SymIdle
    /\ EncIdle

NextVM == DoNewVM \/ RunStep \/ RunReturn

SpecVM == InitVM /\ [][NextVM]_vars

-----------------------------------------------------------------------------
(* Incremental compilation: a session of Compile calls, each on the        *)
(* compiler of the call before or on a compiler that NewWithState builds    *)
(* from the symbol table and the constants the session has reached.  The    *)
(* session starts with New() or with NewWithState on a table and a constant *)
(* list built beforehand.                                                   *)

GlobalTable == <<NewSymbolTable>>

\* symbol tables a compiler is constructed with: empty; a global table with
\* a Global and with a Builtin symbol; an enclosed table holding a Local
\* symbol, a Function symbol, or nothing (the name then resolves to Free
\* through the table in between)
SeedTables ==
    {GlobalTable,
     Define(GlobalTable, 1, "b").tabs,
     DefineBuiltin(Define(GlobalTable, 1, "b").tabs, 1, 1, "a").tabs,
     Define(Define(NewEnclosedSymbolTable(GlobalTable), 2, "b").tabs, 2, "a").tabs,
     DefineFunctionName(NewEnclosedSymbolTable(GlobalTable), 2, "a").tabs,
     NewEnclosedSymbolTable(
        Define(Define(NewEnclosedSymbolTable(GlobalTable), 2, "b").tabs, 2, "a").tabs)}

SeedConstants == {<<>>, <<Integer(MaxInt)>>, <<Integer(MaxInt), String("s", 1)>>}

Lines ==
    {Program(<<>>)}
    \cup {Program(<<Stmt(e)>>) :
            e \in {IntegerLiteral(1), StringLiteral("x"), Identifier("a"), Identifier("b"),
                   Identifier("foobar"), BooleanLit(TRUE),
                   InfixExpression("+", IntegerLiteral(1), Identifier("a")),
                   ArrayLiteral(<<IntegerLiteral(1), Identifier("foobar")>>),
                   IfExpression(BooleanLit(TRUE), Block1(IntegerLiteral(1)),
                                Block1(StringLiteral("x")))}}
    \cup {Program(<<LetStatement(Identifier(n), x)>>) :
            n \in {"a", "b"}, x \in {IntegerLiteral(0), Identifier("a")}}

InitRepl ==
    /\ comp \in {New} \cup {NewWithState(s, k) : s \in SeedTables, k \in SeedConstants}
    /\ prog \in Lines
    /\ lines = 0
    /\ compErr = NoError
    /\ bytecode = <<>>
    /\ vm = <<>>
    /\ pc = "compile"
    /\ runErr = NoError
    /\ SymIdle
    /\ EncIdle

\* the next Compile call is made on the same compiler
ReplCompileAgain ==
    /\ pc \in {"new", "rejected"}
    /\ lines < MaxLines
    /\ prog' \in Lines
    /\ pc' = "compile"
    /\ UNCHANGED <<lines, comp, compErr, bytecode, vm, runErr, symVars, encVars>>

\* the next Compile call is made on NewWithState(symbolTable, constants) with
\* the table of the compiler and the constants of the Bytecode() it produced
ReplNewWithState ==
    /\ pc = "new"
    /\ lines < MaxLines
    /\ prog' \in Lines
    /\ comp' = NewWithState(comp.symbolTable, Bytecode(comp).Constans)
    /\ pc' = "compile"
    /\ UNCHANGED <<lines, compErr, bytecode, vm, runErr, symVars, encVars>>

NextRepl == DoCompile \/ ReplCompileAgain \/ ReplNewWithState

SpecRepl == InitRepl /\ [][NextRepl]_vars

-----------------------------------------------------------------------------
(* Properties of the symbol table (checked under SpecSym) *)

IsResolveStep == ret'.op = "Resolve" /\ calls' = calls + 1

\* C2: free-variable promotion.  In a chain Global <- T1 <- T2 <- T3, when a
\* name that T1 holds as a Local symbol, and that T2 and T3 do not hold, is
\* resolved from T3, T2.FreeSymbols gains T1's Local symbol, T3.FreeSymbols
\* gains the Free symbol that T2 returned (the one T2 now stores), and the
\* symbol T3 returns has Scope Free and Index len(T3.FreeSymbols) - 1.
C2_FreePromotion ==
    [][(/\ IsResolveStep
        /\ Len(tables) = 4
        /\ ret'.table = 4
        /\ ret'.name \in DOMAIN tables[2].store
        /\ tables[2].store[ret'.name].Scope = LocalScope
        /\ ret'.name \notin DOMAIN tables[3].store
        /\ ret'.name \notin DOMAIN tables[4].store)
       => LET n == ret'.name
          IN /\ tables'[2] = tables[2]
             /\ tables'[3].FreeSymbols = Append(tables[3].FreeSymbols, tables[2].store[n])
             /\ tables'[3].store[n] = Symbol(n, FreeScope, Len(tables[3].FreeSymbols))
             /\ tables'[4].FreeSymbols = Append(tables[4].FreeSymbols, tables'[3].store[n])
             /\ ret'.ok
             /\ ret'.symbol.Scope = FreeScope
             /\ ret'.symbol.Index = Len(tables'[4].FreeSymbols) - 1]_vars

\* C2 witness: T3 has resolved a second name through T2 from T1
C2_Witness ==
    /\ Len(tables) = 4
    /\ ret.op = "Resolve" /\ ret.table = 4 /\ ret.ok
    /\ ret.symbol = Symbol(ret.name, FreeScope, 1)
    /\ Len(tables[4].FreeSymbols) = 2
    /\ Len(tables[3].FreeSymbols) = 2
    /\ tables[3].FreeSymbols[2].Scope = LocalScope
    /\ tables[3].FreeSymbols[2].Name = ret.name
    /\ tables[4].FreeSymbols[2] = Symbol(ret.name, FreeScope, 1)

\* C4: symbol indices are dense.  The k-th Define on a table (k = 0, 1, ...)
\* returned Index k, with Scope Global exactly when the table has no Outer
\* and Local otherwise.
C4_DenseIndices ==
    \A t \in 1..Len(defines) : \A k \in 1..Len(defines[t]) :
        /\ defines[t][k].Index = k - 1
        /\ defines[t][k].Scope = (IF t = 1 THEN GlobalScope ELSE LocalScope)

\* C4 witness: two Defines on an enclosed table and one on the global table,
\* with another kind of call in between
C4_Witness ==
    /\ ret.op = "Define"
    /\ Len(defines[1]) >= 1
    /\ \E t \in 2..Len(defines) : Len(defines[t]) = 2
    /\ \E t \in 1..Len(tables) : \E n \in DOMAIN tables[t].store :
          tables[t].store[n].Scope \in {BuiltinScope, FunctionScope, FreeScope}

FreeScopesOriginal(tabs) ==
    \A t \in 1..Len(tabs) : \A i \in 1..Len(tabs[t].FreeSymbols) :
        tabs[t].FreeSymbols[i].Scope \in {LocalScope, FreeScope}

\* C10 as stated: every FreeSymbols entry has Scope Local or Free
C10_Original == FreeScopesOriginal(tables)

\* C10 (amended): every FreeSymbols entry of every table has Scope Local, Free
\* or Function (never Global or Builtin), FreeSymbols only grows, one entry
\* per Resolve at most, and the entry appended is the symbol exactly as the
\* table's Outer returned it (the symbol the Outer holds for the name).
C10_FreeSymbolsKeepScope ==
    [][\A t \in 1..Len(tables') :
         /\ \A i \in 1..Len(tables'[t].FreeSymbols) :
               tables'[t].FreeSymbols[i].Scope \in {LocalScope, FreeScope, FunctionScope}
         /\ IF t > Len(tables)
            THEN tables'[t].FreeSymbols = <<>>
            ELSE \/ tables'[t].FreeSymbols = tables[t].FreeSymbols
                 \/ /\ IsResolveStep
                    /\ t > 1
                    /\ ret'.name \in DOMAIN tables'[t - 1].store
                    /\ tables'[t].FreeSymbols =
                          Append(tables[t].FreeSymbols, tables'[t - 1].store[ret'.name])]_vars

\* C10 witness: a table holds a captured Local, a captured Free and a captured
\* Function symbol somewhere in the chain
C10_Witness ==
    /\ \E t \in 1..Len(tables) : \E i \in 1..Len(tables[t].FreeSymbols) :
          tables[t].FreeSymbols[i].Scope = LocalScope
    /\ \E t \in 1..Len(tables) : \E i \in 1..Len(tables[t].FreeSymbols) :
          tables[t].FreeSymbols[i].Scope = FreeScope
    /\ \E t \in 1..Len(tables) : \E i \in 1..Len(tables[t].FreeSymbols) :
          tables[t].FreeSymbols[i].Scope = FunctionScope

\* FreeSymbols of table t and of every table outside it are as before
FreeSymbolsKept(t) ==
    \A u \in 1..t : tables'[u].FreeSymbols = tables[u].FreeSymbols

\* C11 as stated: once Resolve(name) on a table has returned a Free symbol,
\* every later Resolve(name) on it with no Define(name) on it in between
\* returns that symbol and leaves the FreeSymbols lists unchanged
C11_Original ==
    [][(IsResolveStep /\ ret'.name \in DOMAIN promoted[ret'.table])
       => /\ ret'.ok
          /\ ret'.symbol = promoted[ret'.table][ret'.name].symbol
          /\ FreeSymbolsKept(ret'.table)]_vars

\* C11 (amended): Resolve is idempotent after promotion.  Once Resolve(name)
\* on a table has returned a Free symbol, every later Resolve(name) on the
\* same table, with no Define, DefineBuiltin or DefineFunctionName of that
\* name on it in between, returns the identical Symbol (Scope Free, same
\* Index) and leaves FreeSymbols of that table and of every outer table
\* unchanged.
C11_ResolveIdempotent ==
    [][(/\ IsResolveStep
        /\ ret'.name \in DOMAIN promoted[ret'.table]
        /\ ~promoted[ret'.table][ret'.name].redefined)
       => /\ ret'.ok
          /\ ret'.symbol = promoted[ret'.table][ret'.name].symbol
          /\ ret'.symbol.Scope = FreeScope
          /\ FreeSymbolsKept(ret'.table)]_vars

\* C11 witness: the third of four tables, which returned a Free symbol for a
\* name when the fourth resolved it, has been asked for the name again and
\* has returned the same symbol
C11_Witness ==
    /\ Len(tables) = 4
    /\ ret.op = "Resolve" /\ ret.table = 3 /\ ret.ok
    /\ ret.symbol = Symbol(ret.name, FreeScope, 0)
    /\ tables[4].FreeSymbols = <<ret.symbol>>
    /\ Len(tables[3].FreeSymbols) = 1
    /\ ret.name \in DOMAIN promoted[3]
    /\ promoted[3][ret.name] = [symbol |-> ret.symbol, redefined |-> FALSE]

\* the table nearest to t, from t outwards, that holds name (0 if none does)
RECURSIVE DefiningTable(_, _)
DefiningTable(t, name) ==
    IF t = 0 THEN 0
    ELSE IF name \in DOMAIN tables[t].store THEN t
    ELSE DefiningTable(t - 1, name)

\* C12: Global and Builtin symbols cross scope boundaries unchanged.  When
\* Resolve(name) is called on a table at any depth and the nearest table
\* holding the name holds it as a Global or Builtin symbol, Resolve returns
\* that symbol (same Scope and Index) and the store and FreeSymbols of every
\* table are as before.
C12_GlobalBuiltinUnchanged ==
    [][(/\ IsResolveStep
        /\ DefiningTable(ret'.table, ret'.name) > 0
        /\ tables[DefiningTable(ret'.table, ret'.name)].store[ret'.name].Scope
              \in {GlobalScope, BuiltinScope})
       => /\ ret'.ok
          /\ ret'.symbol = tables[DefiningTable(ret'.table, ret'.name)].store[ret'.name]
          /\ tables' = tables]_vars

\* C12 witness: the innermost of four tables has resolved a Builtin symbol
\* and then a Global symbol, both held by the outermost table only
C12_Witness ==
    /\ Len(tables) = 4
    /\ ret.op = "Resolve" /\ ret.table = 4 /\ ret.ok
    /\ ret.symbol.Scope = GlobalScope
    /\ \A t \in 2..4 : tables[t].store = EmptyStore /\ tables[t].FreeSymbols = <<>>
    /\ \E n \in DOMAIN tables[1].store : tables[1].store[n].Scope = BuiltinScope
    /\ calls = 4

-----------------------------------------------------------------------------
(* Properties of the encoding (checked under SpecEnc) *)

\* the operands are as many as the opcode declares and each fits its width
OperandsFit(op, operands) ==
    /\ Lookup(op).ok
    /\ Len(operands) = Len(OperandWidths(op))
    /\ \A i \in 1..Len(operands) :
          operands[i] >= 0 /\ operands[i] < (IF OperandWidths(op)[i] = 2 THEN 65536 ELSE 256)

\* offset in the instruction (1-based) of the first byte of operand i
RECURSIVE OperandOffset(_, _)
OperandOffset(widths, i) ==
    IF i = 1 THEN 2 ELSE widths[i - 1] + OperandOffset(widths, i - 1)

\* C8: encoding round trip.  For a defined opcode and operands that fit the
\* declared widths, ReadOperands(def, Make(op, operands...)[1:]) returns
\* exactly those operands and the sum of the declared widths as byte count.
C8_RoundTrip ==
    (enc.phase = "read" /\ OperandsFit(enc.op, enc.operands))
        => /\ enc.operandsRead = enc.operands
           /\ enc.n = SumWidths(OperandWidths(enc.op))
           /\ (enc.op = OpConstant => enc.n = 2)
           /\ (enc.op = OpGetLocal => enc.n = 1)

\* C8 witness: the two cases of TestReadOperands and a two-operand opcode
C8_Witness ==
    /\ enc.phase = "read"
    /\ \/ enc.op = OpConstant /\ enc.operands = <<65535>> /\ enc.operandsRead = <<65535>>
       \/ enc.op = OpGetLocal /\ enc.operands = <<255>> /\ enc.operandsRead = <<255>>
       \/ enc.op = OpClosure /\ enc.operands = <<65534, 255>> /\ enc.n = 3

\* C9: Make byte layout.  For a defined opcode and operands that fit, the
\* buffer has length 1 + sum(widths), byte 0 is the opcode, and every operand
\* occupies its declared width, most significant byte first.
C9_MakeLayout ==
    (enc.phase \in {"made", "read"} /\ OperandsFit(enc.op, enc.operands))
        => LET ins == enc.instruction
               widths == OperandWidths(enc.op)
           IN /\ Len(ins) = 1 + SumWidths(widths)
              /\ ins[1] = enc.op
              /\ \A i \in 1..Len(ins) : ins[i] \in 0..255
              /\ \A i \in 1..Len(widths) :
                    LET off == OperandOffset(widths, i)
                    IN IF widths[i] = 2
                       THEN ins[off] * 256 + ins[off + 1] = enc.operands[i]
                       ELSE ins[off] = enc.operands[i]
              /\ (enc.op = OpConstant /\ enc.operands = <<65534>>
                    => ins = <<OpConstant, 255, 254>>)
              /\ (enc.op = OpGetLocal /\ enc.operands = <<255>>
                    => ins = <<OpGetLocal, 255>>)

\* C9 witness: the two cases of TestMake
C9_Witness ==
    /\ enc.phase = "made"
    /\ \/ enc.op = OpConstant /\ enc.operands = <<65534>>
          /\ enc.instruction = <<OpConstant, 255, 254>>
       \/ enc.op = OpGetLocal /\ enc.operands = <<255>>
          /\ enc.instruction = <<OpGetLocal, 255>>

-----------------------------------------------------------------------------
(* Source-language values: what an expression denotes by the language      *)
(* semantics of the specification (sections 4.4 and 8), independent of the  *)
(* compiler and of the VM.  Undefined stands for "no value": a run-time or  *)
(* compile-time error, or a construct outside this reference semantics.     *)

Undefined == [type |-> "undefined"]

RECURSIVE ValueOf(_, _)
RECURSIVE ValueOfBlock(_, _)
RECURSIVE ValuesOf(_, _)

\* the elements of an array literal; <<Undefined>> when one has no value
ValuesOf(nodes, env) ==
    IF nodes = <<>> THEN <<>>
    ELSE LET h == ValueOf(Head(nodes), env)
             t == ValuesOf(Tail(nodes), env)
         IN IF h.type = "undefined" \/ (t # <<>> /\ t[1].type = "undefined")
            THEN <<Undefined>> ELSE <<h>> \o t

\* a block used as an expression denotes its last expression statement
ValueOfBlock(block, env) ==
    LET stmts == block.Statements
    IN IF stmts = <<>> THEN Undefined
       ELSE IF \E i \in 1..Len(stmts) : stmts[i].kind # "ExpressionStatement"
       THEN Undefined
       ELSE IF \E i \in 1..Len(stmts) :
                  ValueOf(stmts[i].Expression, env).type = "undefined"
       THEN Undefined
       ELSE ValueOf(stmts[Len(stmts)].Expression, env)

ValueOf(node, env) ==
    CASE node.kind = "IntegerLiteral" -> Integer(node.Value)
      [] node.kind = "Boolean" -> nativeBoolToBooleanObject(node.BoolValue)
      [] node.kind = "StringLiteral" -> [type |-> STRING_OBJ, Value |-> node.StrValue]
      [] node.kind = "Identifier" ->
            IF node.Name \in DOMAIN env THEN env[node.Name] ELSE Undefined
      [] node.kind = "ArrayLiteral" ->
            LET es == ValuesOf(node.Elements, env)
            IN IF es # <<>> /\ es[1].type = "undefined" THEN Undefined
               ELSE [type |-> ARRAY_OBJ, Elements |-> es]
      [] node.kind = "PrefixExpression" ->
            LET r == ValueOf(node.Right, env)
            IN IF r.type = "undefined" THEN Undefined
               ELSE IF node.Operator = "!"
               THEN nativeBoolToBooleanObject(
                        r.type = NULL_OBJ \/ (r.type = BOOLEAN_OBJ /\ ~r.Value))
               ELSE IF node.Operator = "-" /\ r.type = INTEGER_OBJ
               THEN Integer(0 - r.Value)
               ELSE Undefined
      [] node.kind = "InfixExpression" ->
            LET l == ValueOf(node.Left, env)
                r == ValueOf(node.Right, env)
                op == node.Operator
            IN IF l.type = "undefined" \/ r.type = "undefined" THEN Undefined
               ELSE IF l.type = INTEGER_OBJ /\ r.type = INTEGER_OBJ
               THEN CASE op = "+" -> Integer(l.Value + r.Value)
                      [] op = "-" -> Integer(l.Value - r.Value)
                      [] op = "*" -> Integer(l.Value * r.Value)
                      [] op = "/" -> IF r.Value = 0 THEN Undefined
                                     ELSE Integer(Quotient(l.Value, r.Value))
                      [] op = "<" -> nativeBoolToBooleanObject(l.Value < r.Value)
                      [] op = ">" -> nativeBoolToBooleanObject(l.Value > r.Value)
                      [] op = "==" -> nativeBoolToBooleanObject(l.Value = r.Value)
                      [] op = "!=" -> nativeBoolToBooleanObject(l.Value # r.Value)
                      [] OTHER -> Undefined
               ELSE IF l.type = STRING_OBJ /\ r.type = STRING_OBJ /\ op = "+"
               THEN [type |-> STRING_OBJ, Value |-> l.Value \o r.Value]
               ELSE IF l.type = BOOLEAN_OBJ /\ r.type = BOOLEAN_OBJ /\ op = "=="
               THEN nativeBoolToBooleanObject(l.Value = r.Value)
               ELSE IF l.type = BOOLEAN_OBJ /\ r.type = BOOLEAN_OBJ /\ op = "!="
               THEN nativeBoolToBooleanObject(l.Value # r.Value)
               ELSE Undefined
      [] node.kind = "IfExpression" ->
            LET c == ValueOf(node.Condition, env)
            IN IF c.type = "undefined" THEN Undefined
               ELSE IF isTruty(c) THEN ValueOfBlock(node.Consequence, env)
               ELSE IF node.Alternative.kind = "nil" THEN Null
               ELSE ValueOfBlock(node.Alternative, env)
      [] OTHER -> Undefined

\* the bindings the top-level let statements before position n establish
RECURSIVE EnvBefore(_, _)
EnvBefore(stmts, n) ==
    IF n <= 1 THEN [x \in {} |-> Undefined]
    ELSE LET env == EnvBefore(stmts, n - 1)
             s == stmts[n - 1]
         IN IF s.kind = "LetStatement"
            THEN SlotPut(env, s.LetName.Name, ValueOf(s.LetValue, env))
            ELSE env

\* every top-level statement before the last has a value
AllDefinedBefore(stmts, n) ==
    \A i \in 1..(n - 1) :
        LET e == IF stmts[i].kind = "LetStatement" THEN stmts[i].LetValue
                 ELSE stmts[i].Expression
        IN ValueOf(e, EnvBefore(stmts, i)).type # "undefined"

\* the object o of the VM is the value e
RECURSIVE SameValue(_, _)
SameValue(o, e) ==
    /\ o.type = e.type
    /\ CASE o.type \in {INTEGER_OBJ, BOOLEAN_OBJ, STRING_OBJ} -> o.Value = e.Value
         [] o.type = ARRAY_OBJ ->
               /\ Len(o.Elements) = Len(e.Elements)
               /\ \A i \in 1..Len(o.Elements) : SameValue(o.Elements[i], e.Elements[i])
         [] OTHER -> TRUE

-----------------------------------------------------------------------------
(* Properties of the compiler and of the VM (checked under Spec and SpecVM) *)

\* C1: stack discipline.  For a program that Compile accepts and Run executes
\* without an error, sp is 0 when Run returns and, when the program ends in an
\* expression statement that has a value, LastPoppedStackElm() is that value.
C1_StackDiscipline ==
    (pc = "returned" /\ compErr = NoError /\ runErr = NoError)
        => /\ vm.sp = 0
           /\ LET stmts == prog.Statements
                  n == Len(stmts)
              IN (/\ n > 0
                  /\ stmts[n].kind = "ExpressionStatement"
                  /\ AllDefinedBefore(stmts, n)
                  /\ ValueOf(stmts[n].Expression, EnvBefore(stmts, n)).type # "undefined")
                 => SameValue(LastPoppedStackElm(vm),
                              ValueOf(stmts[n].Expression, EnvBefore(stmts, n)))

\* offsets at which an instruction starts when ins is read from offset pos on
RECURSIVE Boundaries(_, _)
Boundaries(ins, pos) ==
    IF pos >= Len(ins) THEN {}
    ELSE {pos} \cup Boundaries(ins, pos + 1 + SumWidths(OperandWidths(ByteAt(ins, pos))))

\* the two-byte operand of the instruction at offset pos
OperandAt(ins, pos) == ReadUint16(SubSeq(ins, pos + 2, Len(ins)))

\* C3: jump back-patching.  After Compile, for every IfExpression compiled
\* (with or without alternative, nested or not) the operand of its
\* OpJumpNotTruthy is the offset of the first instruction after its OpJump,
\* the operand of its OpJump is the offset right after the alternative, both
\* are instruction boundaries of the buffer (or its end), and no jump in the
\* buffer still carries the placeholder 9999.
C3_BackPatching ==
    (pc \notin {"idle", "compile"} /\ prog # <<>>)
        => LET ins == comp.instructions
               starts == Boundaries(ins, 0)
           IN /\ \A k \in 1..Len(comp.hist.ifs) :
                    LET e == comp.hist.ifs[k]
                    IN /\ e.jumpNotTrutyPos \in starts
                       /\ e.jumpNoMatterWhat \in starts
                       /\ ByteAt(ins, e.jumpNotTrutyPos) = OpJumpNotTruthy
                       /\ ByteAt(ins, e.jumpNoMatterWhat) = OpJump
                       /\ e.jumpNotTrutyPos < e.jumpNoMatterWhat
                       /\ OperandAt(ins, e.jumpNotTrutyPos) = e.jumpNoMatterWhat + 3
                       /\ OperandAt(ins, e.jumpNoMatterWhat) = e.afterAlternativePos
                       /\ e.afterAlternativePos >= e.jumpNoMatterWhat + 3
                       /\ e.jumpNoMatterWhat + 3 \in starts
                       /\ e.afterAlternativePos \in starts \cup {Len(ins)}
              /\ \A pos \in starts :
                    ByteAt(ins, pos) \in {OpJump, OpJumpNotTruthy}
                        => /\ OperandAt(ins, pos) # 9999
                           /\ \E k \in 1..Len(comp.hist.ifs) :
                                 pos \in {comp.hist.ifs[k].jumpNotTrutyPos,
                                          comp.hist.ifs[k].jumpNoMatterWhat}

\* C3 witness: a nested IfExpression was compiled, one of the two without an
\* alternative (its OpJump skips the one-byte OpNull) and one with
C3_Witness ==
    /\ pc = "new"
    /\ Len(comp.hist.ifs) = 2
    /\ \E k \in 1..2 : comp.hist.ifs[k].afterAlternativePos
                          = comp.hist.ifs[k].jumpNoMatterWhat + 4
                       /\ ByteAt(comp.instructions, comp.hist.ifs[k].jumpNoMatterWhat + 3) = OpNull
    /\ \E k \in 1..2 : ByteAt(comp.instructions, comp.hist.ifs[k].jumpNoMatterWhat + 3) = OpConstant
    /\ comp.hist.ifs[2].jumpNotTrutyPos < comp.hist.ifs[1].jumpNotTrutyPos

\* C5: an undefined variable halts compilation.  Once an Identifier failed to
\* resolve, Compile returns "undefined variable <name>" for it and no
\* instruction is emitted after the failure.
C5_UndefinedHalts ==
    (pc \notin {"idle", "compile"} /\ prog # <<>> /\ comp.hist.undefined # <<>>)
        => /\ compErr = <<"undefined variable", comp.hist.undefined[1].name>>
           /\ comp.hist.emits = comp.hist.undefined[1].emits

\* the opcode the next iteration of the loop of Run executes, and its operand
NextOpcode(v) == ByteAt(Instructions(currentFrame(v)), currentFrame(v).ip + 1)
NextOperandBytes(v) ==
    SubSeq(Instructions(currentFrame(v)), currentFrame(v).ip + 3,
           Len(Instructions(currentFrame(v))))

\* the next instruction pushes on top of the stack as it is now
PushesAtSp(v) ==
    LET op == NextOpcode(v)
        bytes == NextOperandBytes(v)
    IN \/ op \in {OpNull, OpTrue, OpFalse}
       \/ op = OpConstant /\ Len(bytes) >= 2 /\ ReadUint16(bytes) < Len(v.constants)
       \/ op = OpGetGlobal /\ Len(bytes) >= 2
       \/ op = OpGetLocal /\ Len(bytes) >= 1
             /\ currentFrame(v).basePointer + ReadUint8(bytes) < StackSize
       \/ op \in {OpArray, OpHash} /\ Len(bytes) >= 2 /\ ReadUint16(bytes) = 0

\* C6: stack overflow propagates.  An instruction that pushes while
\* sp == StackSize makes Run return "stack overflow", whatever the opcode.
C6_OverflowPropagates ==
    [][(/\ pc = "run"
        /\ LoopCondition(vm)
        /\ vm.sp = StackSize
        /\ PushesAtSp(vm))
       => (pc' = "returned" /\ runErr' = <<"stack overflow">>)]_vars

\* C7: wrong argument count.  When OpCall numArgs finds at stack[sp-1-numArgs]
\* a function with NumParameters # numArgs, Run returns "wrong number of
\* arguments: want=<NumParameters>, got=<numArgs>", no frame has been pushed
\* and sp is unchanged.
C7_WrongArgumentCount ==
    [][(/\ pc = "run"
        /\ LoopCondition(vm)
        /\ NextOpcode(vm) = OpCall
        /\ Len(NextOperandBytes(vm)) >= 1
        /\ LET numArgs == ReadUint8(NextOperandBytes(vm))
               callee == vm.sp - 1 - numArgs
           IN /\ callee >= 0 /\ callee < StackSize
              /\ SlotGet(vm.stack, callee).type = COMPILED_FUNCTION_OBJ
              /\ SlotGet(vm.stack, callee).NumParameters # numArgs)
       => LET numArgs == ReadUint8(NextOperandBytes(vm))
              fn == SlotGet(vm.stack, vm.sp - 1 - numArgs)
          IN /\ pc' = "returned"
             /\ runErr' = <<"wrong number of arguments", fn.NumParameters, numArgs>>
             /\ vm'.framesIndex = vm.framesIndex
             /\ vm'.frames = [vm.frames EXCEPT ![vm.framesIndex - 1].ip = @ + 2]
             /\ vm'.sp = vm.sp
             /\ vm'.stack = vm.stack]_vars

\* C7 witness: fn(a){a}(1,2) has returned want=1, got=2 with the callee and
\* both arguments still on the stack and only the main frame
C7_Witness ==
    /\ pc = "returned"
    /\ runErr = <<"wrong number of arguments", 1, 2>>
    /\ vm.sp = 3
    /\ vm.framesIndex = 1

\* o and e are one and the same object (same type, same fields, same identity)
SameConstant(o, e) == o.type = e.type /\ o = e

\* the next iteration of the loop of Run executes op with the stack holding
\* at least n values
AboutToRun(op, n) ==
    /\ pc = "run"
    /\ LoopCondition(vm)
    /\ NextOpcode(vm) = op
    /\ Len(NextOperandBytes(vm)) >= SumWidths(OperandWidths(op))
    /\ vm.sp >= n /\ vm.sp <= StackSize

\* C14: out-of-range array indexing is Null, not an error.  OpIndex with an
\* Array below an Integer i on top of the stack pushes Elements[i] when
\* 0 <= i < len(Elements) and Null for every other i, returns no error and
\* leaves sp one lower than before.
C14_IndexOutOfRangeIsNull ==
    [][(/\ AboutToRun(OpIndex, 2)
        /\ SlotGet(vm.stack, vm.sp - 1).type = INTEGER_OBJ
        /\ SlotGet(vm.stack, vm.sp - 2).type = ARRAY_OBJ)
       => LET i == SlotGet(vm.stack, vm.sp - 1).Value
              elements == SlotGet(vm.stack, vm.sp - 2).Elements
          IN /\ pc' = "run"
             /\ runErr' = NoError
             /\ vm'.sp = vm.sp - 1
             /\ IF 0 <= i /\ i < Len(elements)
                THEN SameConstant(SlotGet(vm'.stack, vm'.sp - 1), elements[i + 1])
                ELSE SameConstant(SlotGet(vm'.stack, vm'.sp - 1), Null)]_vars

\* C14 witness: [1, "a"][2] has left Null where the array was, the index 2
\* still in the slot above
C14_Witness ==
    /\ pc = "run"
    /\ runErr = NoError
    /\ currentFrame(vm).ip >= 0
    /\ ByteAt(Instructions(currentFrame(vm)), currentFrame(vm).ip) = OpIndex
    /\ vm.sp >= 1
    /\ SameConstant(SlotGet(vm.stack, vm.sp - 1), Null)
    /\ SlotGet(vm.stack, vm.sp).type = INTEGER_OBJ
    /\ SlotGet(vm.stack, vm.sp).Value = 2

\* C15: OpArray N consumes its elements.  OpArray N executed with sp = s >= N
\* leaves sp = s - N + 1 and, in slot s - N, an Array whose elements are the
\* former stack[s-N..s) in order.
C15_ArrayConsumesElements ==
    [][(/\ AboutToRun(OpArray, 0)
        /\ vm.sp >= ReadUint16(NextOperandBytes(vm))
        /\ vm.sp - ReadUint16(NextOperandBytes(vm)) < StackSize)
       => LET n == ReadUint16(NextOperandBytes(vm))
              s == vm.sp
          IN /\ runErr' = NoError
             /\ vm'.sp = s - n + 1
             /\ SlotGet(vm'.stack, s - n).type = ARRAY_OBJ
             /\ Len(SlotGet(vm'.stack, s - n).Elements) = n
             /\ \A k \in 1..n :
                   SameConstant(SlotGet(vm'.stack, s - n).Elements[k],
                              SlotGet(vm.stack, s - n + k - 1))]_vars

\* the frame below the current one: the caller's
callerFrame(v) == v.frames[v.framesIndex - 2]

\* the caller stopped on the operand of an OpCall
StoppedAtCall(f) ==
    /\ f.ip >= 1
    /\ f.ip < Len(Instructions(f))
    /\ ByteAt(Instructions(f), f.ip - 1) = OpCall

\* C16: call/return protocol.  (1) OpCall numArgs that finds a function of
\* numArgs parameters at stack[s-1-numArgs], sp being s, pushes a frame with
\* basePointer = s - numArgs and ip = -1 and leaves the caller's ip on the
\* operand of the OpCall.  (2) No step changes the function or the
\* basePointer of a frame that stays on the frame stack, nor the ip of a
\* frame that is not the current one.  (3) OpReturnValue and OpReturn in a
\* called frame pop that frame and nothing else, so that framesIndex is what
\* it was before the call and the caller resumes after the operand of its
\* OpCall, set sp to the frame's basePointer, that is s - numArgs, and leave
\* in stack[sp-1] the value returned (Null for OpReturn).
C16_CallReturnProtocol ==
    [][/\ (/\ AboutToRun(OpCall, 1)
           /\ vm.framesIndex < MaxFrames
           /\ LET numArgs == ReadUint8(NextOperandBytes(vm))
              IN /\ vm.sp - 1 - numArgs >= 0
                 /\ SlotGet(vm.stack, vm.sp - 1 - numArgs).type = COMPILED_FUNCTION_OBJ
                 /\ SlotGet(vm.stack, vm.sp - 1 - numArgs).NumParameters = numArgs)
          => LET numArgs == ReadUint8(NextOperandBytes(vm))
                 fn == SlotGet(vm.stack, vm.sp - 1 - numArgs)
             IN /\ pc' = "run" /\ runErr' = NoError
                /\ vm'.framesIndex = vm.framesIndex + 1
                /\ currentFrame(vm') = [fn |-> fn, ip |-> -1,
                                        basePointer |-> vm.sp - numArgs]
                /\ callerFrame(vm') = [currentFrame(vm) EXCEPT !.ip = @ + 2]
                /\ StoppedAtCall(callerFrame(vm'))
                /\ ByteAt(Instructions(callerFrame(vm')), callerFrame(vm').ip) = numArgs
                /\ vm'.sp = vm.sp - numArgs + fn.NumLocals
                /\ vm'.stack = vm.stack
       /\ (pc = "run" /\ pc' = "run")
          => \A k \in 0..(vm'.framesIndex - 1) :
                k < vm.framesIndex
                    => /\ vm'.frames[k].fn = vm.frames[k].fn
                       /\ vm'.frames[k].basePointer = vm.frames[k].basePointer
                       /\ k < vm.framesIndex - 1 => vm'.frames[k].ip = vm.frames[k].ip
       /\ (/\ \/ AboutToRun(OpReturnValue, 1)
              \/ AboutToRun(OpReturn, 0)
           /\ vm.framesIndex >= 2)
          => LET frame == currentFrame(vm)
                 caller == callerFrame(vm)
                 numArgs == ByteAt(Instructions(caller), caller.ip)
             IN /\ pc' = "run" /\ runErr' = NoError
                /\ StoppedAtCall(caller)
                /\ vm'.framesIndex = vm.framesIndex - 1
                /\ currentFrame(vm') = caller
                /\ vm'.sp = frame.basePointer
                /\ SameConstant(SlotGet(vm'.stack, vm'.sp - 1),
                                IF NextOpcode(vm) = OpReturnValue
                                THEN SlotGet(vm.stack, vm.sp - 1) ELSE Null)
                /\ \A i \in 0..(vm'.sp - 2) :
                      SameConstant(SlotGet(vm'.stack, i), SlotGet(vm.stack, i))]_vars

\* C16 witness: fn(a) { a }(1) has returned to the main program: one frame
\* is left, stopped on the operand of the OpCall, and the callee and its
\* argument have been replaced by the value 1
C16_Witness ==
    /\ pc = "run"
    /\ vm.framesIndex = 1
    /\ StoppedAtCall(currentFrame(vm))
    /\ ByteAt(Instructions(currentFrame(vm)), currentFrame(vm).ip) = 1
    /\ vm.sp = 1
    /\ SameConstant(SlotGet(vm.stack, 0), Integer(1))
    /\ 1 \in DOMAIN vm.frames
    /\ vm.frames[1].basePointer = 1
    /\ vm.frames[1].ip = 2

\* the program is the single expression statement `<integer> op <integer>`
IsIntegerComparison(op) ==
    /\ prog # <<>>
    /\ Len(prog.Statements) = 1
    /\ prog.Statements[1].kind = "ExpressionStatement"
    /\ prog.Statements[1].Expression.kind = "InfixExpression"
    /\ prog.Statements[1].Expression.Operator = op
    /\ prog.Statements[1].Expression.Left.kind = "IntegerLiteral"
    /\ prog.Statements[1].Expression.Right.kind = "IntegerLiteral"

\* C17: LetStatement defines the name before compiling its value.  For a
\* program whose first statement is `let n = n`, Compile does not fail with
\* "undefined variable n": the Identifier in the value resolves to the symbol
\* the statement defines, and the OpSetGlobal emitted carries that index.
C17_LetDefinesBeforeValue ==
    (/\ pc \notin {"idle", "compile"} /\ prog # <<>>
     /\ Len(prog.Statements) >= 1
     /\ prog.Statements[1].kind = "LetStatement"
     /\ prog.Statements[1].LetValue.kind = "Identifier"
     /\ prog.Statements[1].LetValue.Name = prog.Statements[1].LetName.Name)
        => /\ comp.hist.undefined = <<>>
           /\ Len(comp.hist.loads) >= 1 /\ Len(comp.hist.lets) >= 1
           /\ comp.hist.loads[1].symbol = comp.hist.lets[1].symbol
           /\ ByteAt(comp.instructions, comp.hist.lets[1].pos) = OpSetGlobal
           /\ OperandAt(comp.instructions, comp.hist.lets[1].pos)
                 = comp.hist.lets[1].symbol.Index

\* C19: less-than is compiled by operand swap and is semantically correct.
\* `L < R` compiles to the code of R, the code of L and OpGreaterThan, byte
\* for byte what `R > L` compiles to; and for integers a and b, running
\* `a < b` leaves True exactly when a < b, running `a > b` leaves True
\* exactly when a > b, and False otherwise.
C19_LessThanBySwap ==
    /\ (pc \notin {"idle", "compile"} /\ IsIntegerComparison("<"))
          => LET e == prog.Statements[1].Expression
                 swapped == Program(<<Stmt(InfixExpression(">", e.Right, e.Left))>>)
             IN /\ compErr = NoError
                /\ comp.instructions = Make(OpConstant, <<0>>) \o Make(OpConstant, <<1>>)
                                          \o Make(OpGreaterThan, <<>>) \o Make(OpPop, <<>>)
                /\ comp.constants = <<Integer(e.Right.Value), Integer(e.Left.Value)>>
                /\ comp.instructions = Compile(swapped, New).c.instructions
                /\ comp.constants = Compile(swapped, New).c.constants
    /\ (pc \notin {"idle", "compile"} /\ IsIntegerComparison(">"))
          => LET e == prog.Statements[1].Expression
             IN /\ compErr = NoError
                /\ comp.instructions = Make(OpConstant, <<0>>) \o Make(OpConstant, <<1>>)
                                          \o Make(OpGreaterThan, <<>>) \o Make(OpPop, <<>>)
                /\ comp.constants = <<Integer(e.Left.Value), Integer(e.Right.Value)>>
    /\ (pc \in {"returned", "panic"} /\ IsIntegerComparison("<"))
          => /\ pc = "returned" /\ runErr = NoError
             /\ LastPoppedStackElm(vm).type = BOOLEAN_OBJ
             /\ LastPoppedStackElm(vm).Value
                   = (prog.Statements[1].Expression.Left.Value
                        < prog.Statements[1].Expression.Right.Value)
    /\ (pc \in {"returned", "panic"} /\ IsIntegerComparison(">"))
          => /\ pc = "returned" /\ runErr = NoError
             /\ LastPoppedStackElm(vm).type = BOOLEAN_OBJ
             /\ LastPoppedStackElm(vm).Value
                   = (prog.Statements[1].Expression.Left.Value
                        > prog.Statements[1].Expression.Right.Value)

\* C19 witness: `1 < 2` has run and left True, compiled with 2 as constant 0
\* and 1 as constant 1
C19_Witness ==
    /\ pc = "returned"
    /\ IsIntegerComparison("<")
    /\ prog.Statements[1].Expression.Left.Value = 1
    /\ prog.Statements[1].Expression.Right.Value = 2
    /\ comp.constants = <<Integer(2), Integer(1)>>
    /\ LastPoppedStackElm(vm).type = BOOLEAN_OBJ
    /\ LastPoppedStackElm(vm).Value

\* C20: OpBang agrees with the truthiness used by OpJumpNotTruthy.  On every
\* value that the bytecode of a compiled program brings on top of the stack,
\* OpBang pushes True when isTruty is false of the value (OpJumpNotTruthy
\* would jump: the value is False or Null) and False when it is true.
C20_BangAgreesWithTruthiness ==
    [][(AboutToRun(OpBang, 1) /\ prog # <<>>)
       => LET operand == SlotGet(vm.stack, vm.sp - 1)
              result == SlotGet(vm'.stack, vm'.sp - 1)
          IN /\ pc' = "run" /\ runErr' = NoError
             /\ vm'.sp = vm.sp
             /\ result.type = BOOLEAN_OBJ
             /\ result.Value = ~isTruty(operand)
             /\ ~isTruty(operand) <=> (\/ SameConstant(operand, False)
                                        \/ SameConstant(operand, Null))]_vars

\* C20 witness: `!(if (false) { 1 })` has applied OpBang to Null and holds True
C20_Witness ==
    /\ pc = "run" /\ prog # <<>>
    /\ Len(prog.Statements) = 1
    /\ prog.Statements[1].kind = "ExpressionStatement"
    /\ prog.Statements[1].Expression.kind = "PrefixExpression"
    /\ prog.Statements[1].Expression.Operator = "!"
    /\ prog.Statements[1].Expression.Right.kind = "IfExpression"
    /\ currentFrame(vm).ip >= 0
    /\ ByteAt(Instructions(currentFrame(vm)), currentFrame(vm).ip) = OpBang
    /\ vm.sp = 1
    /\ SameConstant(SlotGet(vm.stack, 0), True)

\* every iteration of the loop of Run on a compiled program runs in the main
\* frame and leaves its ip higher than it found it
IpIncreases ==
    (pc = "run" /\ prog # <<>> /\ vm' # vm)
        => /\ vm.framesIndex = 1 /\ vm'.framesIndex = 1
           /\ vm'.frames[0].ip > vm.frames[0].ip
           /\ vm'.frames[0].ip < Len(Instructions(vm'.frames[0]))

\* C21 as stated: on the bytecode of a compiled program the main frame's ip
\* strictly increases at every step of Run, and Run eventually returns
C21_Original ==
    /\ [][IpIncreases]_vars
    /\ (pc = "run") ~> (pc = "returned")

\* C21 (amended): Run terminates on compiler output.  On the bytecode that
\* Compile produces for a program it accepts, the main frame's ip strictly
\* increases at every dispatch step of Run, so no instruction is revisited
\* and Run eventually leaves the loop: it returns nil or an error, or it
\* ends in a run-time panic (integer division by zero, a pop from the empty
\* stack, an operand that is nil).
C21_RunTerminates ==
    /\ [][IpIncreases]_vars
    /\ (pc = "run") ~> (pc \in {"returned", "panic"})

\* C21 witness: a program with an if and an else has run to the end, its
\* condition false, so that the OpJumpNotTruthy was taken
C21_Witness ==
    /\ pc = "returned" /\ runErr = NoError /\ prog # <<>>
    /\ Len(comp.hist.ifs) = 1
    /\ Len(prog.Statements) = 1
    /\ prog.Statements[1].kind = "ExpressionStatement"
    /\ prog.Statements[1].Expression.kind = "IfExpression"
    /\ prog.Statements[1].Expression.Condition.kind = "Boolean"
    /\ ~prog.Statements[1].Expression.Condition.BoolValue
    /\ prog.Statements[1].Expression.Alternative.kind = "BlockStatement"
    /\ vm.frames[0].ip = Len(comp.instructions) - 1
    /\ SameConstant(LastPoppedStackElm(vm), Integer(0))

\* ins, read from offset pos on, is a sequence of complete instructions
RECURSIVE WellFormed(_, _)
WellFormed(ins, pos) ==
    IF pos = Len(ins) THEN TRUE
    ELSE /\ ByteAt(ins, pos) \in Opcodes
         /\ pos + 1 + SumWidths(OperandWidths(ByteAt(ins, pos))) <= Len(ins)
         /\ WellFormed(ins, pos + 1 + SumWidths(OperandWidths(ByteAt(ins, pos))))

\* the offset at which the last instruction of a non-empty buffer starts
LastStart(ins) ==
    CHOOSE p \in Boundaries(ins, 0) : \A q \in Boundaries(ins, 0) : q <= p

\* C22: the emission buffer stays well-formed.  After Compile, and at every
\* consultation of lastInstructionIsPop on the way, the buffer is a
\* concatenation of complete instructions; at every consultation
\* lastInstruction names the opcode and the start offset of the instruction
\* that is last in the buffer; every removeLastPop removed exactly one
\* trailing OpPop byte; and no changeOperand changed the buffer length.
C22_BufferWellFormed ==
    (pc \notin {"idle", "compile"} /\ prog # <<>>)
        => /\ WellFormed(comp.instructions, 0)
           /\ \A k \in 1..Len(comp.hist.consults) :
                 LET e == comp.hist.consults[k]
                 IN /\ WellFormed(e.instructions, 0)
                    /\ e.instructions # <<>>
                    /\ e.last.Position = LastStart(e.instructions)
                    /\ e.last.Opcode = ByteAt(e.instructions, LastStart(e.instructions))
           /\ \A k \in 1..Len(comp.hist.removals) :
                 LET e == comp.hist.removals[k]
                 IN /\ e.Position = Len(e.instructions) - 1
                    /\ e.instructions[Len(e.instructions)] = OpPop
           /\ \A k \in 1..Len(comp.hist.patches) :
                 comp.hist.patches[k].after = comp.hist.patches[k].before

-----------------------------------------------------------------------------
(* Properties of incremental compilation (checked under SpecRepl) *)

\* C13: constant interning is append-only, also across preserved state.
\* Whatever Compile calls were made on a compiler created by New or by
\* NewWithState, its constant list is the list it was constructed with
\* followed by the literals compiled, in order; addConstant returned for
\* each literal the index at which the list holds it; and every OpConstant
\* of the instruction buffer was emitted for a literal and carries the
\* index of that literal in the list.
C13_ConstantsAppendOnly ==
    (pc \notin {"idle", "compile"} /\ prog # <<>>)
        => LET h == comp.hist
               ins == comp.instructions
               kept == Len(h.preserved)
           IN /\ Len(comp.constants) = kept + Len(h.literals)
              /\ \A i \in 1..kept : SameConstant(comp.constants[i], h.preserved[i])
              /\ \A k \in 1..Len(h.literals) :
                    /\ h.literals[k].index = kept + k - 1
                    /\ SameConstant(comp.constants[kept + k], h.literals[k].obj)
              /\ \A pos \in Boundaries(ins, 0) :
                    ByteAt(ins, pos) = OpConstant
                        => \E k \in 1..Len(h.literals) :
                              /\ h.literals[k].pos = pos
                              /\ OperandAt(ins, pos) = h.literals[k].index
                              /\ OperandAt(ins, pos) < Len(comp.constants)
                              /\ SameConstant(comp.constants[OperandAt(ins, pos) + 1],
                                              h.literals[k].obj)

\* C13 witness: the second Compile call of a session, on a compiler made by
\* NewWithState from the constants of the first, has compiled two literals
\* on top of three preserved constants
C13_Witness ==
    /\ pc = "new" /\ lines = 2
    /\ Len(comp.hist.preserved) = 3
    /\ Len(comp.hist.literals) = 2
    /\ Len(comp.constants) = 5
    /\ comp.hist.literals[2].index = 4
    /\ comp.constants[3].type = INTEGER_OBJ
    /\ comp.constants[5].type = STRING_OBJ

\* the load that the specification gives for a symbol of each scope
LoadFor(symbol) ==
    CASE symbol.Scope = GlobalScope -> Make(OpGetGlobal, <<symbol.Index>>)
      [] symbol.Scope = LocalScope -> Make(OpGetLocal, <<symbol.Index>>)
      [] symbol.Scope = BuiltinScope -> Make(OpGetBuiltin, <<symbol.Index>>)
      [] symbol.Scope = FreeScope -> Make(OpGetFree, <<symbol.Index>>)
      [] symbol.Scope = FunctionScope -> Make(OpCurrentClosure, <<>>)

\* C18: the load of an Identifier matches the scope it resolves to.  For
\* every Identifier compiled, whatever symbol table the compiler was
\* constructed with, the instruction emitted is OpGetGlobal idx for a Global
\* symbol, OpGetLocal idx for a Local one, OpGetBuiltin idx for a Builtin
\* one, OpGetFree idx for a Free one and OpCurrentClosure for a Function one.
C18_LoadMatchesScope ==
    (pc \notin {"idle", "compile"} /\ prog # <<>>)
        => \A k \in 1..Len(comp.hist.loads) :
              LET l == comp.hist.loads[k]
              IN /\ l.pos + Len(LoadFor(l.symbol)) <= Len(comp.instructions)
                 /\ SubSeq(comp.instructions, l.pos + 1, l.pos + Len(LoadFor(l.symbol)))
                       = LoadFor(l.symbol)

====
